---- MODULE Spec2Model ----
(***************************************************************************)
(* Model of the notes synchronisation engine of brain-cli                  *)
(* (src/bin/brain.js, "notes pull" / "notes push" / "notes sync").         *)
(*                                                                         *)
(* Texts are sequences of one-character strings.  A local file is kept as  *)
(* the three parts parseNoteMd tells apart: whether the content starts     *)
(* with a "---" header, the key/value pairs of that header, and the raw    *)
(* text after the header (the whole content when there is no header).      *)
(* Timestamps are values of a logical clock that advances at the start of  *)
(* every run and at every edit made outside the program.                   *)
(*                                                                         *)
(* A run is a sequence of steps: its start (ledger load, and for pull the  *)
(* database query), one step per document or file of its loop, and its     *)
(* end (conflict report, ledger save).  A loop step issues its requests in *)
(* program order; any of them may fail, which ends the run as the catch    *)
(* block does, with what the earlier requests of the step changed on the   *)
(* remote kept.  Edits by the operator and on the remote side happen       *)
(* between runs.  ev records the step just taken and the store before it.  *)
(***************************************************************************)
EXTENDS Integers, Sequences, FiniteSets, TLC

\* ------------------------------------------------------------------ bounds
MaxClock == 3      \* runs plus outside edits in one behaviour
MaxTitle == 3      \* characters of the short titles slugify is applied to

NL == "\n"

\* ------------------------------------------------------------ text helpers
IsSpace(c) == c \in {NL, " "}

RECURSIVE TrimLeft(_)
TrimLeft(s) == IF s # << >> /\ IsSpace(Head(s)) THEN TrimLeft(Tail(s)) ELSE s

RECURSIVE TrimRight(_)
TrimRight(s) ==
    IF s # << >> /\ IsSpace(s[Len(s)]) THEN TrimRight(SubSeq(s, 1, Len(s) - 1)) ELSE s

\* String.prototype.trim as used at brain.js:1045 and brain.js:1064
Trim(s) == TrimRight(TrimLeft(s))

\* character codes of the characters texts are made of
CharCode(c) ==
    CASE c = NL  -> 10
      [] c = " " -> 32
      [] c = "-" -> 45
      [] c = "x" -> 120
      [] c = "y" -> 121
      [] c = "z" -> 122
      [] OTHER   -> 63

\* noteContentHash: a digest of the text, 12 hex digits in the program; here a
\* positional code of the characters, kept within 2^24, which tells apart all
\* texts of the lengths the model builds.
RECURSIVE HashFrom(_, _)
HashFrom(h, s) ==
    IF s = << >> THEN h
    ELSE HashFrom((h * 127 + CharCode(Head(s))) % 16777216, Tail(s))

noteContentHash(content) == HashFrom(7, content)

\* ---------------------------------------------------------------- slugify
LowerCase(c) ==
    CASE c = "A" -> "a"
      [] c = "B" -> "b"
      [] c = "U" -> "u"
      [] OTHER   -> c

AlnumChars == {"a", "b", "n", "u", "t", "i", "l", "e", "d", "x", "0", "1"}

RECURSIVE DashRuns(_, _)
\* .replace(/[^a-z0-9]+/g, '-'): every maximal run of other characters
\* becomes one '-'
DashRuns(s, inRun) ==
    IF s = << >> THEN << >>
    ELSE IF Head(s) \in AlnumChars THEN <<Head(s)>> \o DashRuns(Tail(s), FALSE)
    ELSE IF inRun THEN DashRuns(Tail(s), TRUE)
    ELSE <<"-">> \o DashRuns(Tail(s), TRUE)

StripDashes(s) ==
    LET a == IF s # << >> /\ Head(s) = "-" THEN Tail(s) ELSE s
    IN  IF a # << >> /\ a[Len(a)] = "-" THEN SubSeq(a, 1, Len(a) - 1) ELSE a

SlugMax == 60

slugify(title) ==
    LET lower  == [i \in 1 .. Len(title) |-> LowerCase(title[i])]
        dashed == StripDashes(DashRuns(lower, FALSE))
    IN  SubSeq(dashed, 1, IF Len(dashed) < SlugMax THEN Len(dashed) ELSE SlugMax)

Untitled == <<"U", "n", "t", "i", "t", "l", "e", "d">>

\* getPlainText(page.properties?.Topic?.title) || 'Untitled'
PageTitle(t) == IF t = << >> THEN Untitled ELSE t

\* ------------------------------------------------------------- transcoder
\* A span of rich text: its text, the set of annotations that are on, and
\* the target of its link (empty: no link).
Span(t, ann, href) == [plain_text |-> t, annotations |-> ann, href |-> href]

Plain(t) == Span(t, {}, << >>)

Block(type, t) == [type |-> type, rich_text |-> <<Plain(t)>>]

Para(t) == Block("paragraph", t)

\* the character U+0060, by name: a string of this notation cannot hold it
Backquote == "backquote"

Wrap(on, left, text, right) == IF on THEN left \o text \o right ELSE text

SpanMdStrikeInsideCode(t) ==
    LET b == Wrap("bold" \in t.annotations, <<"*", "*">>, t.plain_text, <<"*", "*">>)
        i == Wrap("italic" \in t.annotations, <<"*">>, b, <<"*">>)
        s == Wrap("strikethrough" \in t.annotations, <<"~", "~">>, i, <<"~", "~">>)
        c == Wrap("code" \in t.annotations, <<Backquote>>, s, <<Backquote>>)
    IN  Wrap(t.href # << >>, <<"[">>, c, <<"]", "(">> \o t.href \o <<")">>)

\* the callback of richText.map, brain.js:982-989
SpanMd(t) ==
    LET b == Wrap("bold" \in t.annotations, <<"*", "*">>, t.plain_text, <<"*", "*">>)
        i == Wrap("italic" \in t.annotations, <<"*">>, b, <<"*">>)
        c == Wrap("code" \in t.annotations, <<Backquote>>, i, <<Backquote>>)
        s == Wrap("strikethrough" \in t.annotations, <<"~", "~">>, c, <<"~", "~">>)
    IN  Wrap(t.href # << >>, <<"[">>, s, <<"]", "(">> \o t.href \o <<")">>)

RECURSIVE richTextToMd(_)
richTextToMd(richText) ==
    IF richText = << >> THEN << >>
    ELSE SpanMd(Head(richText)) \o richTextToMd(Tail(richText))

Fence == <<Backquote, Backquote, Backquote>>

DetailsOpen ==
    <<"<", "d", "e", "t", "a", "i", "l", "s", ">", NL,
      "<", "s", "u", "m", "m", "a", "r", "y", ">">>

DetailsClose ==
    <<"<", "/", "s", "u", "m", "m", "a", "r", "y", ">", NL, NL,
      "<", "/", "d", "e", "t", "a", "i", "l", "s", ">", NL, NL>>

UnknownBlockMdShown(b) == <<"?", NL, NL>>

\* default: break
UnknownBlockMd(b) == << >>

\* the switch on block.type, brain.js:997-1042; a block without rich_text
\* has the empty text
BlockMd(b) ==
    LET text == IF "rich_text" \in DOMAIN b THEN richTextToMd(b.rich_text) ELSE << >>
    IN  CASE b.type = "paragraph" -> text \o <<NL, NL>>
          [] b.type = "heading_1" -> <<"#", " ">> \o text \o <<NL, NL>>
          [] b.type = "heading_2" -> <<"#", "#", " ">> \o text \o <<NL, NL>>
          [] b.type = "heading_3" -> <<"#", "#", "#", " ">> \o text \o <<NL, NL>>
          [] b.type = "bulleted_list_item" -> <<"-", " ">> \o text \o <<NL>>
          [] b.type = "numbered_list_item" -> <<"1", ".", " ">> \o text \o <<NL>>
          [] b.type = "to_do" ->
                 <<"-", " ", "[", IF b.checked THEN "x" ELSE " ", "]", " ">> \o text \o <<NL>>
          [] b.type = "toggle" -> DetailsOpen \o text \o DetailsClose
          [] b.type = "code" ->
                 Fence \o b.language \o <<NL>> \o text \o <<NL>> \o Fence \o <<NL, NL>>
          [] b.type = "quote" -> <<">", " ">> \o text \o <<NL, NL>>
          [] b.type = "divider" -> <<"-", "-", "-", NL, NL>>
          [] b.type = "callout" -> <<">", " ">> \o b.emoji \o <<" ">> \o text \o <<NL, NL>>
          [] OTHER -> UnknownBlockMd(b)

RECURSIVE BlocksMd(_)
BlocksMd(blocks) ==
    IF blocks = << >> THEN << >> ELSE BlockMd(Head(blocks)) \o BlocksMd(Tail(blocks))

blocksToMarkdownNoTrim(blocks) == BlocksMd(blocks)

blocksToMarkdown(blocks) == Trim(BlocksMd(blocks))

\* markdownToBlocks of the markdown library the program calls, for the lines
\* blocksToMarkdown writes and plain text: a line is read by its marker; a
\* plain line that directly follows a paragraph, a list item or a quote
\* continues it; blank lines separate; a fence runs to the next fence.
RECURSIVE Lines(_, _)
Lines(s, cur) ==
    IF s = << >> THEN <<cur>>
    ELSE IF Head(s) = NL THEN <<cur>> \o Lines(Tail(s), << >>)
    ELSE Lines(Tail(s), Append(cur, Head(s)))

HasPrefix(line, p) == Len(line) >= Len(p) /\ SubSeq(line, 1, Len(p)) = p

After(line, p) == SubSeq(line, Len(p) + 1, Len(line))

\* the block a line starts, by its marker; a marker alone starts a block
\* with the empty text
LineBlock(line) ==
    LET Marked(m) == HasPrefix(line, Append(m, " ")) \/ line = m
        Text(m)   == After(line, Append(m, " "))
    IN  CASE line = <<"-", "-", "-">> -> [type |-> "divider"]
          [] Marked(<<"#", "#", "#">>) -> Block("heading_3", Text(<<"#", "#", "#">>))
          [] Marked(<<"#", "#">>) -> Block("heading_2", Text(<<"#", "#">>))
          [] Marked(<<"#">>) -> Block("heading_1", Text(<<"#">>))
          [] HasPrefix(line, <<"-", " ", "[", " ", "]", " ">>) ->
                 Block("to_do", After(line, <<"-", " ", "[", " ", "]", " ">>))
                     @@ [checked |-> FALSE]
          [] HasPrefix(line, <<"-", " ", "[", "x", "]", " ">>) ->
                 Block("to_do", After(line, <<"-", " ", "[", "x", "]", " ">>))
                     @@ [checked |-> TRUE]
          [] Marked(<<"-">>) -> Block("bulleted_list_item", Text(<<"-">>))
          [] Marked(<<"1", ".">>) -> Block("numbered_list_item", Text(<<"1", ".">>))
          [] Marked(<<">">>) -> Block("quote", Text(<<">">>))
          [] OTHER -> Para(line)

NoFence == [on |-> FALSE, language |-> << >>, lines |-> << >>]

RECURSIVE JoinLines(_)
JoinLines(ls) ==
    IF ls = << >> THEN << >>
    ELSE IF Len(ls) = 1 THEN ls[1]
    ELSE ls[1] \o <<NL>> \o JoinLines(Tail(ls))

CodeBlock(fence) == Block("code", JoinLines(fence.lines)) @@ [language |-> fence.language]

Continues(b) ==
    b.type \in {"paragraph", "bulleted_list_item", "numbered_list_item", "to_do", "quote"}

RECURSIVE ParseLines(_, _, _, _)
ParseLines(lines, acc, open, fence) ==
    IF lines = << >> THEN (IF fence.on THEN Append(acc, CodeBlock(fence)) ELSE acc)
    ELSE LET l    == Head(lines)
             rest == Tail(lines)
             b    == LineBlock(l)
             last == acc[Len(acc)]
         IN  IF fence.on
             THEN IF l = Fence
                  THEN ParseLines(rest, Append(acc, CodeBlock(fence)), FALSE, NoFence)
                  ELSE ParseLines(rest, acc, FALSE, [fence EXCEPT !.lines = Append(@, l)])
             ELSE IF Trim(l) = << >> THEN ParseLines(rest, acc, FALSE, fence)
             ELSE IF HasPrefix(l, Fence)
                  THEN ParseLines(rest, acc, FALSE,
                                  [on |-> TRUE, language |-> After(l, Fence), lines |-> << >>])
             ELSE IF b.type = "paragraph" /\ open
                  THEN ParseLines(rest,
                                  [acc EXCEPT ![Len(acc)].rich_text =
                                      <<Plain(last.rich_text[1].plain_text \o <<NL>> \o l)>>],
                                  TRUE, fence)
             ELSE ParseLines(rest, Append(acc, b), Continues(b), fence)

markdownToBlocks(body) == ParseLines(Lines(body, << >>), << >>, FALSE, NoFence)

\* ------------------------------------------------------------ local files
NoId == 0
NoHash == -1

EmptyFrontmatter ==
    [id |-> NoId, title |-> << >>, type |-> "", status |-> "", notionUrl |-> << >>,
     lastSyncedAt |-> 0, contentHash |-> NoHash]

NotionUrl(id) == <<"notion.so", id>>

parseNoteMdHeaderExpected(file) == [frontmatter |-> file.fm, body |-> Trim(file.raw)]

\* parseNoteMd: without a header the whole content is the body, untrimmed;
\* with a header the body is the trimmed text after it
parseNoteMd(file) ==
    IF ~file.hdr THEN [frontmatter |-> EmptyFrontmatter, body |-> file.raw]
    ELSE [frontmatter |-> file.fm, body |-> Trim(file.raw)]

\* writeNoteMd: "---\n<yaml>\n---\n" followed by "\n<body>\n"
writeNoteMd(frontmatter, body) ==
    [hdr |-> TRUE, fm |-> frontmatter, raw |-> <<NL>> \o body \o <<NL>>]

\* ----------------------------------------------------------------- ledger
EmptyState == [notes |-> << >>, lastSync |-> 0]

Put(f, k, v) == [x \in (DOMAIN f) \cup {k} |-> IF x = k THEN v ELSE f[x]]

Drop(f, k) == [x \in (DOMAIN f) \ {k} |-> f[x]]

\* A ledger file whose text cannot be read or parsed keeps, under the field
\* garbled, what was written to it.
Unreadable(ledger) == "garbled" \in DOMAIN ledger

Garbled(ledger) == [garbled |-> TRUE, notes |-> ledger.notes, lastSync |-> ledger.lastSync]

loadNotesSyncStateFresh(ledger) == EmptyState

\* try { JSON.parse(readFileSync) } catch (e) { return { notes: {}, lastSync: null } }
loadNotesSyncState(ledger) == IF Unreadable(ledger) THEN EmptyState ELSE ledger

saveNotesSyncStateMerging(ledger, st, dry, now) ==
    IF ~dry
    THEN [notes |-> [k \in DOMAIN ledger.notes \cup DOMAIN st.notes |->
                        IF k \in DOMAIN st.notes THEN st.notes[k] ELSE ledger.notes[k]],
          lastSync |-> now]
    ELSE ledger

saveNotesSyncStateNever(ledger, st, dry, now) == ledger

saveNotesSyncStateAlways(ledger, st, dry, now) == [st EXCEPT !.lastSync = now]

\* saveNotesSyncState: the ledger file after the call
saveNotesSyncState(ledger, st, dry, now) ==
    IF ~dry THEN [st EXCEPT !.lastSync = now] ELSE ledger

RemoteStamp(t) == <<"notion", t>>

LocalStamp(t) == <<"local", t>>

\* new Date() at the n-th file of a run started at time t: later files of the
\* run get later times
WriteTime(t, n) == <<t, n>>

\* ------------------------------------------------------------------ state
VARIABLES
    remote,      \* the hosted documents: id -> [title, type, status, marker, blocks]
    files,       \* the notes directory: file name (without ".md") -> file
    ledgerFile,  \* the content of .notes-sync-state.json
    report,      \* the content of sync-conflicts.md, << >> when absent
    pc,          \* "idle", "pull" or "push": the run in progress
    cmd,         \* the command that started the run: "pull", "push" or "sync"
    dryRun,      \* the --dry-run option of the run
    state,       \* the run's in-memory ledger
    todo,        \* pull: documents of the query not yet visited; push: files not yet visited
    counts,      \* pulled / skipped / pushed / created of the run
    conflicts,   \* the conflicts array of the push run
    reqs,        \* requests the run has issued so far, by kind
    clock,       \* logical time
    pullClean,   \* a non-dry pull completed and nothing disturbed its result since
    pushClean,   \* a non-dry push completed and no local edit followed
    second,      \* the run in progress started with its clean flag set
    start,       \* the files and the ledger file as they were when the run started
    classes,     \* the class the run gave to each document or file it has visited
    broken,      \* the last run, when it was cut short and nothing happened since
    ev           \* the last step taken, with the state it started from

vars == <<remote, files, ledgerFile, report, pc, cmd, dryRun, state, todo, counts,
          conflicts, reqs, clock, pullClean, pushClean, second, start, classes,
          broken, ev>>

store == <<remote, files, ledgerFile, report>>

run == <<pc, cmd, dryRun, state, todo, counts, conflicts, reqs, second, start, classes>>

\* ----------------------------------------------------------------- inputs
TitleA == <<"A">>

\* titles a document is renamed to
NewTitles == {<<"B">>}

BlockLists == {<<Para(<<"x">>)>>, <<Para(<<"x">>), Para(<<"y">>)>>}

\* texts the operator types: "x" followed by a newline, and "y"
UserTexts == {<<"x", NL>>, <<"y">>}

\* headers the operator makes of a header by changing one of its fields
HeaderEdits(fm) ==
    {[fm EXCEPT !.title = <<"t">>], [fm EXCEPT !.type = "idea"], [fm EXCEPT !.status = "done"]}

\* names of the files the operator creates
LocalNames == {<<"n">>}

NoCounts == [pulled |-> 0, skipped |-> 0, pushed |-> 0, created |-> 0]

NoReqs == [query |-> 0, fetch |-> 0, create |-> 0, delete |-> 0, append |-> 0, patch |-> 0]

Mutations(r) == r.create + r.delete + r.append + r.patch

NoEv == [op |-> "none"]

NoStart == [files |-> << >>, ledgerFile |-> EmptyState, ids |-> {}]

NoBroken == [cmd |-> "none", files |-> << >>, ids |-> {}, at |-> NoEv]

Pre == [remote |-> remote, files |-> files, ledgerFile |-> ledgerFile,
        report |-> report, notes |-> state.notes]

RemoteDoc(title, blocks, t) ==
    [title |-> title, type |-> "", status |-> "", marker |-> RemoteStamp(t), blocks |-> blocks]

\* one document "A", or "A" and a second one whose title gives the same slug
\* ("a") or another one ("b")
InitRemotes ==
    {[i \in {1} |-> RemoteDoc(TitleA, <<Para(<<"x">>)>>, 0)]}
    \cup {[i \in {1, 2} |-> IF i = 1 THEN RemoteDoc(TitleA, <<Para(<<"x">>)>>, 0)
                                      ELSE RemoteDoc(t, <<Para(<<"y">>)>>, 0)] :
              t \in {<<"a">>, <<"b">>}}

\* ------------------------------------------------- the operator and others
\* Somebody edits a document's content on the remote side.
RemoteEdit ==
    /\ pc = "idle"
    /\ clock < MaxClock
    /\ \E id \in DOMAIN remote, b \in BlockLists :
          /\ b # remote[id].blocks
          /\ remote' = [remote EXCEPT ![id].blocks = b,
                                      ![id].marker = RemoteStamp(clock + 1)]
    /\ clock' = clock + 1
    /\ pullClean' = FALSE
    /\ ev' = [op |-> "RemoteEdit"]
    /\ broken' = NoBroken
    /\ UNCHANGED <<files, ledgerFile, report, run, pushClean>>

\* Somebody changes a document's title on the remote side.
RemoteRename ==
    /\ pc = "idle"
    /\ clock < MaxClock
    /\ \E id \in DOMAIN remote, t \in NewTitles :
          /\ t # remote[id].title
          /\ remote' = [remote EXCEPT ![id].title = t,
                                      ![id].marker = RemoteStamp(clock + 1)]
    /\ clock' = clock + 1
    /\ pullClean' = FALSE
    /\ ev' = [op |-> "RemoteRename"]
    /\ broken' = NoBroken
    /\ UNCHANGED <<files, ledgerFile, report, run, pushClean>>

\* A document is deleted on the remote side: the query no longer returns it
\* and requests for it fail.
RemoteRemove ==
    /\ pc = "idle"
    /\ clock < MaxClock
    /\ \E id \in DOMAIN remote : remote' = Drop(remote, id)
    /\ clock' = clock + 1
    /\ pullClean' = FALSE
    /\ ev' = [op |-> "RemoteRemove"]
    /\ broken' = NoBroken
    /\ UNCHANGED <<files, ledgerFile, report, run, pushClean>>

\* The operator writes a new file, with a header that has no id or with no
\* header at all.
LocalCreate ==
    /\ pc = "idle"
    /\ clock < MaxClock
    /\ \E name \in LocalNames \ DOMAIN files, hdr \in BOOLEAN, raw \in {<<"x", NL>>} :
          files' = Put(files, name, [hdr |-> hdr, fm |-> EmptyFrontmatter, raw |-> raw])
    /\ clock' = clock + 1
    /\ pushClean' = FALSE
    /\ ev' = [op |-> "LocalCreate"]
    /\ broken' = NoBroken
    /\ UNCHANGED <<remote, ledgerFile, report, run, pullClean>>

\* The operator changes the text of a file and keeps its header.
LocalEdit ==
    /\ pc = "idle"
    /\ clock < MaxClock
    /\ \E name \in DOMAIN files, raw \in UserTexts :
          /\ raw # files[name].raw
          /\ files' = [files EXCEPT ![name].raw = raw]
    /\ clock' = clock + 1
    /\ pushClean' = FALSE
    /\ ev' = [op |-> "LocalEdit"]
    /\ broken' = NoBroken
    /\ UNCHANGED <<remote, ledgerFile, report, run, pullClean>>

\* The operator changes the title, the type or the status in a file's header
\* and keeps its text.
LocalEditHeader ==
    /\ pc = "idle"
    /\ clock < MaxClock
    /\ \E name \in DOMAIN files :
       \E fm \in HeaderEdits(files[name].fm) :
          /\ files[name].hdr
          /\ fm # files[name].fm
          /\ files' = [files EXCEPT ![name].fm = fm]
    /\ clock' = clock + 1
    /\ pushClean' = FALSE
    /\ ev' = [op |-> "LocalEditHeader"]
    /\ broken' = NoBroken
    /\ UNCHANGED <<remote, ledgerFile, report, run, pullClean>>

\* The operator deletes a file.
LocalRemove ==
    /\ pc = "idle"
    /\ clock < MaxClock
    /\ \E name \in DOMAIN files : files' = Drop(files, name)
    /\ clock' = clock + 1
    /\ pushClean' = FALSE
    /\ pullClean' = FALSE
    /\ ev' = [op |-> "LocalRemove"]
    /\ broken' = NoBroken
    /\ UNCHANGED <<remote, ledgerFile, report, run>>

\* The remote fingerprint of a ledger entry is changed outside the program
\* (the scenario of the specification's conflict test).
TamperLedger ==
    /\ pc = "idle"
    /\ clock < MaxClock
    /\ ~Unreadable(ledgerFile)
    /\ \E id \in DOMAIN ledgerFile.notes :
          LET h == noteContentHash(<<"y", "y">>)
          IN  /\ ledgerFile.notes[id].notionHash # h
              /\ ledgerFile' = [ledgerFile EXCEPT !.notes[id].notionHash = h]
    /\ clock' = clock + 1
    /\ pushClean' = FALSE
    /\ pullClean' = FALSE
    /\ ev' = [op |-> "TamperLedger"]
    /\ broken' = NoBroken
    /\ UNCHANGED <<remote, files, report, run>>

\* ------------------------------------------------------------- run control
EndRun ==
    /\ pc' = "idle"
    /\ cmd' = "none"
    /\ dryRun' = FALSE
    /\ state' = EmptyState
    /\ todo' = {}
    /\ counts' = NoCounts
    /\ conflicts' = << >>
    /\ reqs' = NoReqs
    /\ second' = FALSE
    /\ start' = NoStart
    /\ classes' = << >>

FailRunRetries ==
    /\ pullClean' = FALSE
    /\ pushClean' = FALSE
    /\ UNCHANGED <<run, broken>>

\* the step at which a run was cut short: for a push step the file, its class
\* and the requests it had issued
CutAt(step) ==
    IF step.op = "PushFile"
    THEN [op |-> step.op, name |-> step.name, id |-> step.id, class |-> step.class,
          issued |-> step.issued]
    ELSE [op |-> step.op]

\* catch (error) { ...; process.exit(1) } of pull and of push
FailRun ==
    /\ EndRun
    /\ pullClean' = FALSE
    /\ pushClean' = FALSE
    /\ broken' = IF pc = "idle" \/ dryRun THEN NoBroken
                 ELSE [cmd |-> cmd, files |-> start.files, ids |-> start.ids,
                       at |-> CutAt(ev')]

\* the exit code of the process when it ends with this step, -1 while it runs
ExitCode(ok, last) == IF ~ok THEN 1 ELSE IF last THEN 0 ELSE -1

\* a run that follows a cut-short run of the same command, not a dry run
Rerun(c, dry) == IF broken.cmd = c /\ ~dry THEN broken ELSE NoBroken

BeginPushForReal(c, dry) ==
    /\ pc' = "push"
    /\ cmd' = c
    /\ dryRun' = FALSE
    /\ state' = loadNotesSyncState(ledgerFile')
    /\ todo' = DOMAIN files
    /\ counts' = NoCounts
    /\ conflicts' = << >>
    /\ reqs' = NoReqs
    /\ second' = pushClean
    /\ start' = [files |-> files, ledgerFile |-> ledgerFile', ids |-> DOMAIN remote]
    /\ classes' = << >>

\* The first lines of the push action: load the ledger, list the directory.
BeginPush(c, dry) ==
    /\ pc' = "push"
    /\ cmd' = c
    /\ dryRun' = dry
    /\ state' = loadNotesSyncState(ledgerFile')
    /\ todo' = DOMAIN files
    /\ counts' = NoCounts
    /\ conflicts' = << >>
    /\ reqs' = NoReqs
    /\ second' = pushClean
    /\ start' = [files |-> files, ledgerFile |-> ledgerFile', ids |-> DOMAIN remote]
    /\ classes' = << >>

\* ------------------------------------------------------------------- pull
PullUnchangedNoFileCheck(notes, id, localExists, marker) ==
    id \in DOMAIN notes /\ notes[id].notionUpdated = marker

\* brain.js:1151: existing && localExists && existing.notionUpdated === notionUpdated
PullUnchanged(notes, id, localExists, marker) ==
    id \in DOMAIN notes /\ localExists /\ notes[id].notionUpdated = marker

PullFrontmatter(id, page, mdBody, now) ==
    [id |-> id, title |-> PageTitle(page.title), type |-> page.type,
     status |-> page.status, notionUrl |-> NotionUrl(id), lastSyncedAt |-> now,
     contentHash |-> noteContentHash(mdBody)]

PullEntryStale(slug, page, mdBody, old) ==
    [slug |-> slug, title |-> PageTitle(page.title), notionUpdated |-> old,
     localHash |-> noteContentHash(mdBody), notionHash |-> noteContentHash(mdBody)]

\* brain.js:1174-1180: the ledger entry pull stores
PullEntry(slug, page, mdBody, old) ==
    [slug |-> slug, title |-> PageTitle(page.title), notionUpdated |-> page.marker,
     localHash |-> noteContentHash(mdBody), notionHash |-> noteContentHash(mdBody)]

\* The store after a first "notes pull" of the single document "A" at time 0.
SyncedRemote == [i \in {1} |-> RemoteDoc(TitleA, <<Para(<<"x">>)>>, 0)]

SyncedBody == blocksToMarkdown(SyncedRemote[1].blocks)

SyncedFiles ==
    Put(<< >>, slugify(TitleA),
        writeNoteMd(PullFrontmatter(1, SyncedRemote[1], SyncedBody, 0), SyncedBody))

SyncedLedger ==
    [notes |-> Put(<< >>, 1, PullEntry(slugify(TitleA), SyncedRemote[1], SyncedBody,
                                       RemoteStamp(-1))),
     lastSync |-> 0]

\* The store is empty and the remote holds one or two documents, or the store
\* is the one a first pull of one document leaves (the state PullFinish
\* reaches from the first of InitRemotes, with the stamps of time 0).
Init ==
    /\ \/ /\ remote \in InitRemotes
          /\ files = << >>
          /\ ledgerFile = EmptyState
       \/ /\ remote = SyncedRemote
          /\ files = SyncedFiles
          /\ ledgerFile = SyncedLedger
    /\ report = << >>
    /\ pc = "idle"
    /\ cmd = "none"
    /\ dryRun = FALSE
    /\ state = EmptyState
    /\ todo = {}
    /\ counts = NoCounts
    /\ conflicts = << >>
    /\ reqs = NoReqs
    /\ clock = 0
    /\ pullClean = FALSE
    /\ pushClean = FALSE
    /\ second = FALSE
    /\ start = NoStart
    /\ classes = << >>
    /\ broken = NoBroken
    /\ ev = NoEv

\* "notes pull" / "notes sync" is started: the ledger is loaded and the
\* documents are queried (one page of results).
StartPull ==
    /\ pc = "idle"
    /\ \E c \in {"pull", "sync"}, dry \in BOOLEAN, ok \in BOOLEAN :
          /\ clock < MaxClock
          /\ clock' = clock + 1
          /\ ev' = [op |-> "StartPull", cmd |-> c, dry |-> dry, ok |-> ok, killed |-> FALSE,
                    exit |-> ExitCode(ok, FALSE), issued |-> [NoReqs EXCEPT !.query = 1],
                    start |-> [files |-> files, ledgerFile |-> ledgerFile, ids |-> DOMAIN remote], pre |-> Pre]
          /\ IF ok
             THEN /\ pc' = "pull"
                  /\ cmd' = c
                  /\ dryRun' = dry
                  /\ state' = loadNotesSyncState(ledgerFile)
                  /\ todo' = DOMAIN remote
                  /\ counts' = NoCounts
                  /\ conflicts' = << >>
                  /\ reqs' = [NoReqs EXCEPT !.query = 1]
                  /\ second' = pullClean
                  /\ start' = [files |-> files, ledgerFile |-> ledgerFile, ids |-> DOMAIN remote]
                  /\ classes' = << >>
                  /\ broken' = Rerun(c, dry)
                  /\ pushClean' = (dry /\ pushClean)
                  /\ UNCHANGED pullClean
             ELSE FailRun
    /\ UNCHANGED store

\* One iteration of the loop over the query's results.
PullDoc ==
    /\ pc = "pull"
    /\ \E id \in todo :
          LET page == remote[id]
              slug == slugify(PageTitle(page.title))
              localExists == slug \in DOMAIN files
              unchanged == PullUnchanged(state.notes, id, localExists, page.marker)
              mdBody == blocksToMarkdown(page.blocks)
              fm == PullFrontmatter(id, page, mdBody, clock)
              old == IF id \in DOMAIN state.notes THEN state.notes[id].notionUpdated
                     ELSE RemoteStamp(-1)
              step == [op |-> "PullDoc", cmd |-> cmd, id |-> id, slug |-> slug,
                       dry |-> dryRun, second |-> second, killed |-> FALSE, start |-> start,
                       broken |-> broken, pre |-> Pre]
          IN  IF unchanged
              THEN /\ counts' = [counts EXCEPT !.skipped = @ + 1]
                   /\ todo' = todo \ {id}
                   /\ classes' = Put(classes, id, "Unchanged")
                   /\ ev' = step @@ [class |-> "Unchanged", ok |-> TRUE, issued |-> NoReqs,
                                     exit |-> ExitCode(TRUE, FALSE)]
                   /\ UNCHANGED <<store, pc, cmd, dryRun, state, conflicts, reqs,
                                  second, start, broken, pullClean, pushClean>>
              ELSE \E ok \in BOOLEAN :
                   /\ ev' = step @@ [class |-> "Fetch", ok |-> ok,
                                     issued |-> [NoReqs EXCEPT !.fetch = 1],
                                     exit |-> ExitCode(ok, FALSE)]
                   /\ IF ok
                      THEN /\ files' = IF dryRun THEN files
                                       ELSE Put(files, slug, writeNoteMd(fm, mdBody))
                           /\ state' = [state EXCEPT
                                          !.notes = Put(@, id, PullEntry(slug, page, mdBody, old))]
                           /\ counts' = [counts EXCEPT !.pulled = @ + 1]
                           /\ reqs' = [reqs EXCEPT !.fetch = @ + 1]
                           /\ todo' = todo \ {id}
                           /\ classes' = Put(classes, id, "Fetch")
                           /\ UNCHANGED <<remote, ledgerFile, report, pc, cmd, dryRun,
                                          conflicts, second, start, broken, pullClean,
                                          pushClean>>
                      ELSE /\ FailRun
                           /\ UNCHANGED store
    /\ UNCHANGED clock

\* After the loop: saveNotesSyncState; under "sync" the push follows.
PullFinish ==
    /\ pc = "pull"
    /\ todo = {}
    /\ ledgerFile' = saveNotesSyncState(ledgerFile, state, dryRun, clock)
    /\ ev' = [op |-> "PullFinish", cmd |-> cmd, dry |-> dryRun, second |-> second,
              counts |-> counts, reqs |-> reqs, classes |-> classes, start |-> start,
              broken |-> broken, exit |-> ExitCode(TRUE, cmd = "pull"), pre |-> Pre]
    /\ pullClean' = IF dryRun THEN pullClean ELSE cmd = "pull"
    /\ IF cmd = "sync"
       THEN BeginPush("sync", dryRun) /\ UNCHANGED broken
       ELSE EndRun /\ broken' = NoBroken
    /\ UNCHANGED <<remote, files, report, clock, pushClean>>

\* ------------------------------------------------------------------- push
Min(a, b) == IF a < b THEN a ELSE b

Clamp(x, lo, hi) == IF x < lo THEN lo ELSE IF x > hi THEN hi ELSE x

Take(s, n) == SubSeq(s, 1, Min(n, Len(s)))

DropFirst(s, n) == SubSeq(s, Min(n, Len(s)) + 1, Len(s))

CHUNK_SIZE == 100

\* number of requests appendBlocks issues for n blocks
Chunks(n) == IF n <= 0 THEN 0 ELSE (n + CHUNK_SIZE - 1) \div CHUNK_SIZE

\* number of requests fetchAllPageBlocks issues for a document of n blocks
FetchPages(n) == IF n <= CHUNK_SIZE THEN 1 ELSE (n + CHUNK_SIZE - 1) \div CHUNK_SIZE

PushClassifyOrphanCreates(fm, notes, C) ==
    IF fm.id = NoId \/ fm.id \notin DOMAIN notes THEN "Create"
    ELSE IF C = notes[fm.id].localHash THEN "Unchanged"
    ELSE IF notes[fm.id].notionHash # notes[fm.id].localHash THEN "Conflict"
    ELSE "OnlyLocalChanged"

PushClassifyNoConflict(fm, notes, C) ==
    IF fm.id = NoId THEN "Create"
    ELSE IF fm.id \notin DOMAIN notes THEN "Orphaned"
    ELSE IF C = notes[fm.id].localHash THEN "Unchanged"
    ELSE "OnlyLocalChanged"

PushClassifyHeaderAware(fm, notes, C) ==
    IF fm.id = NoId THEN "Create"
    ELSE IF fm.id \notin DOMAIN notes THEN "Orphaned"
    ELSE IF C = notes[fm.id].localHash /\ fm.title = notes[fm.id].title THEN "Unchanged"
    ELSE IF notes[fm.id].notionHash # notes[fm.id].localHash THEN "Conflict"
    ELSE "OnlyLocalChanged"

\* brain.js:1221, 1276, 1281, 1287: the order of the checks of push
PushClassify(fm, notes, C) ==
    IF fm.id = NoId THEN "Create"
    ELSE IF fm.id \notin DOMAIN notes THEN "Orphaned"
    ELSE IF C = notes[fm.id].localHash THEN "Unchanged"
    ELSE IF notes[fm.id].notionHash # notes[fm.id].localHash THEN "Conflict"
    ELSE "OnlyLocalChanged"

\* ids of documents that exist or have left a trace in the store
UsedIds ==
    DOMAIN remote \cup DOMAIN ledgerFile.notes \cup DOMAIN state.notes
    \cup {files[n].fm.id : n \in DOMAIN files}

\* the id the remote gives to a created page: one no document has or had
FreshId ==
    IF UsedIds = {} THEN 1
    ELSE 1 + (CHOOSE i \in UsedIds : \A j \in UsedIds : j <= i)

DotMd == <<".", "m", "d">>

\* --- Create, brain.js:1230-1266
CreateTitle(fm, name) == IF fm.title # << >> THEN fm.title ELSE name

CreateTotal(blocks) == 1 + Chunks(Len(blocks) - CHUNK_SIZE)

\* the remote after the first k requests of a Create succeeded
CreateRemote(rem, id, fm, name, blocks, k, now) ==
    IF k = 0 THEN rem
    ELSE Put(rem, id,
             [title |-> CreateTitle(fm, name), type |-> fm.type, status |-> fm.status,
              marker |-> RemoteStamp(now),
              blocks |-> Take(blocks, CHUNK_SIZE * k)])

CreateFrontmatterNoId(fm, id, C, now) ==
    [fm EXCEPT !.notionUrl = NotionUrl(id), !.lastSyncedAt = now, !.contentHash = C]

CreateFrontmatter(fm, id, C, now) ==
    [fm EXCEPT !.id = id, !.notionUrl = NotionUrl(id), !.lastSyncedAt = now,
               !.contentHash = C]

CreateEntryRemoteUnknown(fm, name, C, now) ==
    [slug |-> name, title |-> IF fm.title # << >> THEN fm.title ELSE name \o DotMd,
     notionUpdated |-> LocalStamp(now), localHash |-> C, notionHash |-> NoHash]

\* brain.js:1260-1266: the ledger entry of a created page
CreateEntry(fm, name, C, now) ==
    [slug |-> name, title |-> IF fm.title # << >> THEN fm.title ELSE name \o DotMd,
     notionUpdated |-> LocalStamp(now), localHash |-> C, notionHash |-> C]

\* --- OnlyLocalChanged, brain.js:1307-1332
HasProps(fm) == fm.title # << >> \/ fm.type # "" \/ fm.status # ""

ReplaceTotal(cur, new, fm) ==
    FetchPages(Len(cur)) + Len(cur) + Chunks(Len(new)) + (IF HasProps(fm) THEN 1 ELSE 0)

ReplaceDocNoDelete(doc, new, fm, k, now) ==
    IF k <= FetchPages(Len(doc.blocks)) THEN doc
    ELSE [doc EXCEPT !.marker = RemoteStamp(now),
                     !.blocks = @ \o Take(new, CHUNK_SIZE * Clamp(k - FetchPages(Len(@)) - Len(@),
                                                                  0, Chunks(Len(new))))]

\* the document after the first k requests of deleteAllBlocks, appendBlocks
\* and the properties PATCH succeeded
ReplaceDoc(doc, new, fm, k, now) ==
    LET cur == doc.blocks
        nf  == FetchPages(Len(cur))
        nd  == Len(cur)
        na  == Chunks(Len(new))
        d   == Clamp(k - nf, 0, nd)
        a   == Clamp(k - nf - nd, 0, na)
        p   == HasProps(fm) /\ k = ReplaceTotal(cur, new, fm)
    IN  IF k <= nf THEN doc
        ELSE [title  |-> IF p /\ fm.title # << >> THEN fm.title ELSE doc.title,
              type   |-> IF p /\ fm.type # "" THEN fm.type ELSE doc.type,
              status |-> IF p /\ fm.status # "" THEN fm.status ELSE doc.status,
              marker |-> RemoteStamp(now),
              blocks |-> DropFirst(cur, d) \o Take(new, CHUNK_SIZE * a)]

\* requests issued by kind when the first k of the requests succeed: the
\* failing request, if any, was issued too
ReplaceIssued(cur, new, fm, k) ==
    LET total == ReplaceTotal(cur, new, fm)
        i  == IF k < total THEN k + 1 ELSE total
        nf == FetchPages(Len(cur))
        nd == Len(cur)
        na == Chunks(Len(new))
    IN  [query |-> 0, create |-> 0,
         fetch  |-> Clamp(i, 0, nf),
         delete |-> Clamp(i - nf, 0, nd),
         append |-> Clamp(i - nf - nd, 0, na),
         patch  |-> Clamp(i - nf - nd - na, 0, 1)]

CreateIssued(blocks, k) ==
    LET total == CreateTotal(blocks)
        i == IF k < total THEN k + 1 ELSE total
    IN  [query |-> 0, fetch |-> 0, delete |-> 0, patch |-> 0,
         create |-> 1, append |-> i - 1]

AddReqs(r, q) == [x \in DOMAIN r |-> r[x] + q[x]]

ConflictRecord(name, fm, C, entry) ==
    [file |-> name, frontmatter |-> fm, localHash |-> C,
     lastSyncLocalHash |-> entry.localHash, notionHash |-> entry.notionHash]

\* one section of sync-conflicts.md, brain.js:1343-1347
ReportSection(c) ==
    [file |-> c.file, localHash |-> c.localHash, lastSyncLocalHash |-> c.lastSyncLocalHash,
     notionHash |-> c.notionHash,
     page |-> IF c.frontmatter.notionUrl # << >> THEN c.frontmatter.notionUrl
              ELSE <<c.frontmatter.id>>]

ConflictReportAppend(old, cs, now) ==
    [stamp |-> now,
     sections |-> (IF old = << >> THEN << >> ELSE old.sections)
                  \o [i \in 1 .. Len(cs) |-> ReportSection(cs[i])]]

\* the text written to sync-conflicts.md
ConflictReport(old, cs, now) ==
    [stamp |-> now, sections |-> [i \in 1 .. Len(cs) |-> ReportSection(cs[i])]]

\* "notes push" is started: the ledger is loaded and the directory listed.
StartPush ==
    /\ pc = "idle"
    /\ clock < MaxClock
    /\ clock' = clock + 1
    /\ \E dry \in BOOLEAN :
          /\ ev' = [op |-> "StartPush", cmd |-> "push", dry |-> dry, ok |-> TRUE,
                    killed |-> FALSE, exit |-> ExitCode(TRUE, FALSE), issued |-> NoReqs,
                    start |-> [files |-> files, ledgerFile |-> ledgerFile, ids |-> DOMAIN remote], pre |-> Pre]
          /\ pullClean' = (dry /\ pullClean)
          /\ ledgerFile' = ledgerFile
          /\ broken' = Rerun("push", dry)
          /\ BeginPush("push", dry)
    /\ UNCHANGED <<remote, files, report, pushClean>>

\* One iteration of the loop over the files of the notes directory.  A Create
\* can also be cut short by the end of the process between the create request
\* and the rewrite of the file (killed).
PushFile ==
    /\ pc = "push"
    /\ \E name \in todo :
          LET parsed == parseNoteMd(files[name])
              fm     == parsed.frontmatter
              body   == parsed.body
              C      == noteContentHash(body)
              class  == PushClassify(fm, state.notes, C)
              blocks == markdownToBlocks(body)
              step   == [op |-> "PushFile", cmd |-> cmd, name |-> name, class |-> class,
                         dry |-> dryRun,
                         second |-> second, C |-> C, id |-> fm.id, start |-> start,
                         broken |-> broken, pre |-> Pre]
              done   == [ok |-> TRUE, killed |-> FALSE, issued |-> NoReqs,
                         exit |-> ExitCode(TRUE, FALSE)]
              skip   == /\ todo' = todo \ {name}
                        /\ classes' = Put(classes, name, class)
                        /\ UNCHANGED <<store, pc, cmd, dryRun, state, reqs, second, start,
                                       broken, pullClean, pushClean>>
          IN  CASE class = "Create" /\ dryRun ->
                     /\ counts' = [counts EXCEPT !.created = @ + 1]
                     /\ ev' = step @@ done
                     /\ skip
                     /\ UNCHANGED conflicts
                [] class = "Create" /\ ~dryRun ->
                     \E k \in 0 .. CreateTotal(blocks), killed \in BOOLEAN :
                        LET id == FreshId
                            ok == k = CreateTotal(blocks) /\ ~killed
                        IN  /\ killed => k = CreateTotal(blocks)
                            /\ remote' = CreateRemote(remote, id, fm, name, blocks, k, clock)
                            /\ ev' = [step EXCEPT !.id = id]
                                     @@ [ok |-> ok, killed |-> killed,
                                         issued |-> CreateIssued(blocks, k),
                                         exit |-> ExitCode(ok, FALSE)]
                            /\ IF ok
                               THEN /\ files' = Put(files, name,
                                                    writeNoteMd(CreateFrontmatter(fm, id, C, clock),
                                                                body))
                                    /\ state' = [state EXCEPT
                                                   !.notes = Put(@, id, CreateEntry(fm, name, C,
                                                                       WriteTime(clock, Cardinality(DOMAIN classes))))]
                                    /\ counts' = [counts EXCEPT !.created = @ + 1]
                                    /\ reqs' = AddReqs(reqs, CreateIssued(blocks, k))
                                    /\ todo' = todo \ {name}
                                    /\ classes' = Put(classes, name, class)
                                    /\ UNCHANGED <<ledgerFile, report, pc, cmd, dryRun, conflicts,
                                                   second, start, broken, pullClean, pushClean>>
                               ELSE /\ FailRun
                                    /\ UNCHANGED <<files, ledgerFile, report>>
                [] class \in {"Orphaned", "Unchanged"} ->
                     /\ counts' = [counts EXCEPT !.skipped = @ + 1]
                     /\ ev' = step @@ done
                     /\ skip
                     /\ UNCHANGED conflicts
                [] class = "Conflict" ->
                     /\ conflicts' = Append(conflicts,
                                            ConflictRecord(name, fm, C, state.notes[fm.id]))
                     /\ ev' = step @@ done
                     /\ skip
                     /\ UNCHANGED counts
                [] class = "OnlyLocalChanged" /\ dryRun ->
                     /\ counts' = [counts EXCEPT !.pushed = @ + 1]
                     /\ ev' = step @@ done
                     /\ skip
                     /\ UNCHANGED conflicts
                [] class = "OnlyLocalChanged" /\ ~dryRun ->
                     LET known == fm.id \in DOMAIN remote
                         cur   == IF known THEN remote[fm.id].blocks ELSE << >>
                         total == ReplaceTotal(cur, blocks, fm)
                     IN  \E k \in 0 .. (IF known THEN total ELSE 0) :
                            LET ok == k = total
                            IN  /\ remote' = IF known
                                             THEN [remote EXCEPT
                                                     ![fm.id] = ReplaceDoc(@, blocks, fm, k, clock)]
                                             ELSE remote
                                /\ ev' = step @@ [ok |-> ok, killed |-> FALSE,
                                                  issued |-> ReplaceIssued(cur, blocks, fm, k),
                                                  exit |-> ExitCode(ok, FALSE)]
                                /\ IF ok
                                   THEN /\ files' = Put(files, name,
                                                        writeNoteMd([fm EXCEPT
                                                                       !.lastSyncedAt = clock,
                                                                       !.contentHash = C], body))
                                        /\ state' = [state EXCEPT
                                                       !.notes[fm.id].localHash = C,
                                                       !.notes[fm.id].notionHash = C,
                                                       !.notes[fm.id].notionUpdated =
                                                          LocalStamp(WriteTime(clock, Cardinality(DOMAIN classes)))]
                                        /\ counts' = [counts EXCEPT !.pushed = @ + 1]
                                        /\ reqs' = AddReqs(reqs, ReplaceIssued(cur, blocks, fm, k))
                                        /\ todo' = todo \ {name}
                                        /\ classes' = Put(classes, name, class)
                                        /\ UNCHANGED <<ledgerFile, report, pc, cmd, dryRun,
                                                       conflicts, second, start, broken,
                                                       pullClean, pushClean>>
                                   ELSE /\ FailRun
                                        /\ UNCHANGED <<files, ledgerFile, report>>
    /\ UNCHANGED clock

WriteConflictsEveryRun(old, cs, dry, now) ==
    IF ~dry THEN ConflictReport(old, cs, now) ELSE old

\* brain.js:1338-1352: the conflicts file after the loop
WriteConflicts(old, cs, dry, now) ==
    IF Len(cs) > 0 /\ ~dry THEN ConflictReport(old, cs, now) ELSE old

\* After the loop: the conflicts file, then saveNotesSyncState.
PushFinish ==
    /\ pc = "push"
    /\ todo = {}
    /\ report' = WriteConflicts(report, conflicts, dryRun, clock)
    /\ ledgerFile' = saveNotesSyncState(ledgerFile, state, dryRun, clock)
    /\ ev' = [op |-> "PushFinish", cmd |-> cmd, dry |-> dryRun, second |-> second,
              counts |-> counts, reqs |-> reqs, conflicts |-> conflicts,
              classes |-> classes, start |-> start, broken |-> broken,
              exit |-> ExitCode(TRUE, TRUE), pre |-> Pre]
    /\ pushClean' = IF dryRun THEN pushClean ELSE TRUE
    /\ broken' = NoBroken
    /\ EndRun
    /\ UNCHANGED <<remote, files, clock, pullClean>>

\* The process is ended from outside between two steps of a run.
Interrupt ==
    /\ pc # "idle"
    /\ ev' = [op |-> "Interrupt", cmd |-> cmd, dry |-> dryRun, start |-> start, pre |-> Pre]
    /\ FailRun
    /\ UNCHANGED <<store, clock>>

Next ==
    \/ RemoteEdit
    \/ RemoteRename
    \/ RemoteRemove
    \/ LocalCreate
    \/ LocalEdit
    \/ LocalEditHeader
    \/ LocalRemove
    \/ TamperLedger
    \/ StartPull
    \/ PullDoc
    \/ PullFinish
    \/ StartPush
    \/ PushFile
    \/ PushFinish
    \/ Interrupt

Spec == Init /\ [][Next]_vars

\* ------------------------------------------------------- slugify by itself
\* characters of the titles: a letter, a capital, a digit, and three
\* characters that are neither
TitleChars == {"a", "A", "0", "-", "!", " "}

RECURSIVE Texts(_)
\* the texts of at most n of these characters
Texts(n) ==
    IF n = 0 THEN {<< >>}
    ELSE LET shorter == Texts(n - 1)
         IN  shorter \cup {Append(t, c) : t \in shorter, c \in TitleChars}

\* titles of a page: the short texts, and those after SlugMax - 2 letters
PageTitles ==
    Texts(MaxTitle) \cup {[i \in 1 .. SlugMax - 2 |-> "a"] \o t : t \in Texts(MaxTitle)}

\* a page with some title is about to be pulled
InitSlug ==
    /\ ev \in {[op |-> "page", title |-> t] : t \in PageTitles}
    /\ remote = << >>
    /\ files = << >>
    /\ ledgerFile = EmptyState
    /\ report = << >>
    /\ pc = "idle"
    /\ cmd = "none"
    /\ dryRun = FALSE
    /\ state = EmptyState
    /\ todo = {}
    /\ counts = NoCounts
    /\ conflicts = << >>
    /\ reqs = NoReqs
    /\ clock = 0
    /\ pullClean = FALSE
    /\ pushClean = FALSE
    /\ second = FALSE
    /\ start = NoStart
    /\ classes = << >>
    /\ broken = NoBroken

\* brain.js:1140 and 1145: the title of the page, then its slug
Slugify ==
    /\ ev.op = "page"
    /\ ev' = [op |-> "slugify", title |-> PageTitle(ev.title),
              slug |-> slugify(PageTitle(ev.title))]
    /\ UNCHANGED <<store, run, clock, pullClean, pushClean, broken>>

NextSlug == Slugify

SpecSlug == InitSlug /\ [][NextSlug]_vars

\* ------------------------------------------- a store with a conflict report
\* The store an earlier "notes push" leaves that found the file of document
\* "A" in conflict: the synced store, the ledger's remote fingerprint changed
\* outside the program, the file's text changed to "y", and the report of
\* that push (stamps of the past are written as time -1).
ConflictedFiles == [SyncedFiles EXCEPT ![slugify(TitleA)].raw = <<"y">>]

ConflictedLedger ==
    [SyncedLedger EXCEPT !.notes[1].notionHash = noteContentHash(<<"y", "y">>)]

ConflictedReport ==
    LET p == parseNoteMd(ConflictedFiles[slugify(TitleA)])
    IN  ConflictReport(<< >>,
                       <<ConflictRecord(slugify(TitleA), p.frontmatter,
                                        noteContentHash(p.body), ConflictedLedger.notes[1])>>,
                       -1)

InitConflicted ==
    /\ remote = SyncedRemote
    /\ files = ConflictedFiles
    /\ ledgerFile = ConflictedLedger
    /\ report = ConflictedReport
    /\ pc = "idle"
    /\ cmd = "none"
    /\ dryRun = FALSE
    /\ state = EmptyState
    /\ todo = {}
    /\ counts = NoCounts
    /\ conflicts = << >>
    /\ reqs = NoReqs
    /\ clock = 0
    /\ pullClean = FALSE
    /\ pushClean = FALSE
    /\ second = FALSE
    /\ start = NoStart
    /\ classes = << >>
    /\ broken = NoBroken
    /\ ev = NoEv

SpecConflicted == InitConflicted /\ [][Next]_vars

\* ------------------------------------------------------ cursor pagination
\* The two loops that read a paginated collection: the database query of
\* pull and the block listing of fetchAllPageBlocks.  The collection is a
\* chain of pages; page p holds chain[p] items, and the cursor the gateway
\* hands out with page p names page p + 1.
MaxPages == 3      \* pages of a paginated collection
MaxItems == 2      \* items on one page

\* let cursor = null
NoCursor == 0

PageItems(p, n) == [k \in 1 .. n |-> <<p, k>>]

Chains == UNION {[1 .. n -> 0 .. MaxItems] : n \in 1 .. MaxPages}

\* the gateway's answer to a request that carries cursor c
Respond(chain, c) ==
    LET p == IF c = NoCursor THEN 1 ELSE c
    IN  [results |-> PageItems(p, chain[p]),
         has_more |-> p < Len(chain),
         next_cursor |-> IF p < Len(chain) THEN p + 1 ELSE NoCursor]

NextCursorFirstPageOnly(response) == NoCursor

\* cursor = response.has_more ? response.next_cursor : null
NextCursor(response) == IF response.has_more THEN response.next_cursor ELSE NoCursor

\* every variable of the sync engine at rest, with an empty store
AtRest ==
    /\ remote = << >>
    /\ files = << >>
    /\ ledgerFile = EmptyState
    /\ report = << >>
    /\ pc = "idle"
    /\ cmd = "none"
    /\ dryRun = FALSE
    /\ state = EmptyState
    /\ todo = {}
    /\ counts = NoCounts
    /\ conflicts = << >>
    /\ reqs = NoReqs
    /\ clock = 0
    /\ pullClean = FALSE
    /\ pushClean = FALSE
    /\ second = FALSE
    /\ start = NoStart
    /\ classes = << >>
    /\ broken = NoBroken

\* a loop is about to send its first request
InitPages ==
    /\ ev \in {[op |-> "paging", loop |-> l, chain |-> c, cursor |-> NoCursor,
                sent |-> << >>, items |-> << >>, done |-> FALSE] :
               l \in {"query", "blocks"}, c \in Chains}
    /\ AtRest

\* one turn of do { request; take the results; next cursor } while (cursor)
LoopTurn(loop) ==
    /\ ev.op = "paging"
    /\ ev.loop = loop
    /\ ~ev.done
    /\ LET response == Respond(ev.chain, ev.cursor)
           cursor   == NextCursor(response)
       IN  ev' = [ev EXCEPT !.sent = Append(@, ev.cursor),
                            !.items = @ \o response.results,
                            !.cursor = cursor,
                            !.done = (cursor = NoCursor)]
    /\ UNCHANGED <<store, run, clock, pullClean, pushClean, broken>>

\* brain.js:1133-1187
QueryTurn == LoopTurn("query")

\* brain.js:1079-1089
FetchBlocksTurn == LoopTurn("blocks")

NextPages == QueryTurn \/ FetchBlocksTurn

SpecPages == InitPages /\ [][NextPages]_vars

\* --------------------------------------------------------- block batching
\* The requests that carry the blocks of one document: the create request
\* with its first batch followed by appendBlocks for the rest, and
\* appendBlocks alone when a document's blocks are replaced.  Blocks are
\* numbered; only their count and order matter here.
MaxChunks == 2     \* block lists hold up to CHUNK_SIZE * MaxChunks + 1 blocks

BlockCounts == 0 .. CHUNK_SIZE * MaxChunks + 1

NumberedBlocks(n) == [i \in 1 .. n |-> i]

AppendChunkOverlapping(blocks, i) ==
    SubSeq(blocks, i + 1, Min(i + CHUNK_SIZE + 1, Len(blocks)))

\* blocks.slice(i, i + CHUNK_SIZE)
AppendChunk(blocks, i) == SubSeq(blocks, i + 1, Min(i + CHUNK_SIZE, Len(blocks)))

\* the blocks of a document are about to be sent
InitBatch ==
    /\ ev \in {[op |-> "batching", kind |-> k, blocks |-> NumberedBlocks(n),
                stage |-> IF k = "create" THEN "create" ELSE "append",
                rest |-> IF k = "create" THEN << >> ELSE NumberedBlocks(n),
                i |-> 0, sent |-> << >>] :
               k \in {"create", "replace"}, n \in BlockCounts}
    /\ AtRest

\* brain.js:1242-1252: the create request with the first batch
CreateRequest ==
    /\ ev.op = "batching"
    /\ ev.stage = "create"
    /\ ev' = [ev EXCEPT !.sent = Append(@, Take(ev.blocks, CHUNK_SIZE)),
                        !.rest = DropFirst(ev.blocks, CHUNK_SIZE),
                        !.stage = IF Len(ev.blocks) > CHUNK_SIZE THEN "append" ELSE "done"]
    /\ UNCHANGED <<store, run, clock, pullClean, pushClean, broken>>

\* brain.js:1105-1113: one turn of the for loop of appendBlocks
AppendRequest ==
    /\ ev.op = "batching"
    /\ ev.stage = "append"
    /\ ev.i < Len(ev.rest)
    /\ ev' = [ev EXCEPT !.sent = Append(@, AppendChunk(ev.rest, ev.i)),
                        !.i = @ + CHUNK_SIZE]
    /\ UNCHANGED <<store, run, clock, pullClean, pushClean, broken>>

\* brain.js:1105: the for loop ends
AppendEnd ==
    /\ ev.op = "batching"
    /\ ev.stage = "append"
    /\ ev.i >= Len(ev.rest)
    /\ ev' = [ev EXCEPT !.stage = "done"]
    /\ UNCHANGED <<store, run, clock, pullClean, pushClean, broken>>

NextBatch == CreateRequest \/ AppendRequest \/ AppendEnd

SpecBatch == InitBatch /\ [][NextBatch]_vars

\* ------------------------------------------ a store with an unreadable ledger
\* The synced store after the ledger file was damaged (cut short, overwritten
\* with text that is not JSON, or made unreadable).
InitCorrupt ==
    /\ remote = SyncedRemote
    /\ files = SyncedFiles
    /\ ledgerFile = Garbled(SyncedLedger)
    /\ report = << >>
    /\ pc = "idle"
    /\ cmd = "none"
    /\ dryRun = FALSE
    /\ state = EmptyState
    /\ todo = {}
    /\ counts = NoCounts
    /\ conflicts = << >>
    /\ reqs = NoReqs
    /\ clock = 0
    /\ pullClean = FALSE
    /\ pushClean = FALSE
    /\ second = FALSE
    /\ start = NoStart
    /\ classes = << >>
    /\ broken = NoBroken
    /\ ev = NoEv

SpecCorrupt == InitCorrupt /\ [][Next]_vars

\* ------------------------------------------- the operator resolves a conflict
\* From the store with a conflict report the operator edits the reported
\* file, to the text of the last sync ("x"), or to a text of their own, and
\* runs the commands again.
ResolveTexts == UserTexts \cup {<<"z">>, <<"z", NL>>}

\* "Resolve by editing the local file, then re-run sync." (brain.js:1341)
ResolveEdit ==
    /\ pc = "idle"
    /\ clock < MaxClock
    /\ report # << >>
    /\ \E i \in 1 .. Len(report.sections), raw \in ResolveTexts :
          LET name == report.sections[i].file
          IN  /\ name \in DOMAIN files
              /\ raw # files[name].raw
              /\ files' = [files EXCEPT ![name].raw = raw]
    /\ clock' = clock + 1
    /\ pushClean' = FALSE
    /\ ev' = [op |-> "ResolveEdit"]
    /\ broken' = NoBroken
    /\ UNCHANGED <<remote, ledgerFile, report, run, pullClean>>

NextResolve ==
    \/ ResolveEdit
    \/ StartPull
    \/ PullDoc
    \/ PullFinish
    \/ StartPush
    \/ PushFile
    \/ PushFinish

SpecResolve == InitConflicted /\ [][NextResolve]_vars

\* ------------------------------------------------------ rich text by itself
MaxSpans == 2      \* spans of one rich text

Annotations == {"bold", "italic", "code", "strikethrough"}

\* a span with any of the annotations on, with or without a link
Spans == {Span(<<"x">>, a, h) : a \in SUBSET Annotations, h \in {<< >>, <<"u">>}}

RichTexts == UNION {[1 .. n -> Spans] : n \in 1 .. MaxSpans}

\* the rich text of a block is about to be rendered
InitSpans ==
    /\ ev \in {[op |-> "richText", richText |-> r] : r \in RichTexts}
    /\ AtRest

\* brain.js:980-991
RenderRichText ==
    /\ ev.op = "richText"
    /\ ev' = [op |-> "richTextToMd", richText |-> ev.richText,
              md |-> richTextToMd(ev.richText)]
    /\ UNCHANGED <<store, run, clock, pullClean, pushClean, broken>>

NextSpans == RenderRichText

SpecSpans == InitSpans /\ [][NextSpans]_vars

\* ---------------------------------------------------- the transcoder by itself
MaxBlocks == 2     \* blocks of one document

CodecTexts == {<<"x">>, << >>}

\* blocks of the variants the round trip is stated for, with plain texts; a
\* paragraph may hold a text that begins like a heading
LosslessBlocks ==
    {Block(ty, t) : ty \in {"paragraph", "heading_1", "heading_2", "heading_3",
                            "bulleted_list_item", "numbered_list_item", "quote"},
                    t \in CodecTexts}
    \cup {Block("to_do", t) @@ [checked |-> c] : t \in CodecTexts, c \in BOOLEAN}
    \cup {Block("code", t) @@ [language |-> l] : t \in CodecTexts, l \in {<< >>, <<"j", "s">>}}
    \cup {[type |-> "divider"], Para(<<"#", " ", "x">>)}

\* a toggle with and without children, a callout, and blocks of variants
\* the switch does not name
OtherBlocks ==
    {Block("toggle", <<"x">>) @@ [children |-> c] : c \in {<< >>, <<Para(<<"y">>)>>}}
    \cup {Block("callout", <<"x">>) @@ [emoji |-> <<"!">>],
          [type |-> "embed"], Block("synced_block", <<"y">>)}

CodecLists == UNION {[1 .. n -> LosslessBlocks \cup OtherBlocks] : n \in 0 .. MaxBlocks}

\* the blocks of a document are about to be decoded
InitCodec ==
    /\ ev \in {[op |-> "blocks", blocks |-> bs] : bs \in CodecLists}
    /\ AtRest

\* brain.js:1157-1158: the body of a pulled document
Decode ==
    /\ ev.op = "blocks"
    /\ ev' = [op |-> "decoded", blocks |-> ev.blocks, md |-> blocksToMarkdown(ev.blocks)]
    /\ UNCHANGED <<store, run, clock, pullClean, pushClean, broken>>

\* brain.js:1307: the blocks of the body when it is pushed
Encode ==
    /\ ev.op = "decoded"
    /\ ev' = [op |-> "encoded", blocks |-> ev.blocks, md |-> ev.md,
              back |-> markdownToBlocks(ev.md)]
    /\ UNCHANGED <<store, run, clock, pullClean, pushClean, broken>>

NextCodec == Decode \/ Encode

SpecCodec == InitCodec /\ [][NextCodec]_vars

\* ------------------------------------- the ledger is changed by the program only
\* The runs and the edits of files and documents, without any change of the
\* ledger file from outside the program.
NextUntampered ==
    \/ RemoteEdit
    \/ RemoteRename
    \/ RemoteRemove
    \/ LocalCreate
    \/ LocalEdit
    \/ LocalEditHeader
    \/ LocalRemove
    \/ StartPull
    \/ PullDoc
    \/ PullFinish
    \/ StartPush
    \/ PushFile
    \/ PushFinish
    \/ Interrupt

SpecUntampered == Init /\ [][NextUntampered]_vars

\* ------------------------------------------------- the requests of one run
\* The order in which a run sends its requests, receives their responses and
\* writes its files.  A document is the number of requests its step sends and
\* whether the step writes the local file; document 0 is the query that
\* precedes the loop of pull.
MaxDocs == 2     \* documents a run visits

\* the async function does not go on while a request it awaits is outstanding
AwaitDetached(flight) == TRUE

\* await notionRequest(...)
Await(flight) == flight = {}

\* steps of the loop of pull: skipped, or fetched with the blocks on one or two pages
PullPlans(dry) ==
    {[class |-> "Unchanged", n |-> 0, write |-> FALSE]}
    \cup {[class |-> "Fetch", n |-> FetchPages(c), write |-> ~dry] : c \in {1, CHUNK_SIZE + 1}}

\* steps of the loop of push: skipped (and every step of a dry run), created
\* with one or two batches, replaced with or without properties
PushPlans(dry) ==
    {[class |-> "Unchanged", n |-> 0, write |-> FALSE]}
    \cup (IF dry THEN {}
          ELSE {[class |-> "Create", n |-> CreateTotal(NumberedBlocks(b)), write |-> TRUE] :
                   b \in {1, CHUNK_SIZE + 1}}
               \cup {[class |-> "OnlyLocalChanged",
                      n |-> ReplaceTotal(NumberedBlocks(1), NumberedBlocks(1), fm),
                      write |-> TRUE] :
                        fm \in {EmptyFrontmatter, [EmptyFrontmatter EXCEPT !.title = TitleA]}})

PlanLists(plans) == UNION {[1 .. n -> plans] : n \in 1 .. MaxDocs}

\* what the run does for document d
Plan(d) ==
    IF d = 0 THEN [class |-> "query", n |-> IF ev.cmd = "pull" THEN 1 ELSE 0, write |-> FALSE]
    ELSE ev.plans[d]

\* a run is about to start
InitSerial ==
    /\ ev \in {[op |-> "serial", cmd |-> c, dry |-> d, plans |-> ps, doc |-> 0, k |-> 0,
                flight |-> {}, done |-> {}, written |-> {}] :
               c \in {"pull", "push"}, d \in BOOLEAN,
               ps \in PlanLists(PullPlans(TRUE)) \cup PlanLists(PullPlans(FALSE))
                      \cup PlanLists(PushPlans(TRUE)) \cup PlanLists(PushPlans(FALSE))}
    /\ ev.plans \in PlanLists(IF ev.cmd = "pull" THEN PullPlans(ev.dry) ELSE PushPlans(ev.dry))
    /\ AtRest

\* the next request of the document is sent
SendRequest ==
    /\ ev.op = "serial"
    /\ ev.doc <= Len(ev.plans)
    /\ ev.k < Plan(ev.doc).n
    /\ Await(ev.flight)
    /\ ev' = [ev EXCEPT !.k = @ + 1, !.flight = @ \cup {<<ev.doc, ev.k + 1>>}]
    /\ UNCHANGED <<store, run, clock, pullClean, pushClean, broken>>

\* the response to an outstanding request arrives
ReceiveResponse ==
    /\ ev.op = "serial"
    /\ \E r \in ev.flight :
          ev' = [ev EXCEPT !.flight = @ \ {r}, !.done = @ \cup {r}]
    /\ UNCHANGED <<store, run, clock, pullClean, pushClean, broken>>

\* writeNoteMd after the last request of the document
WriteNote ==
    /\ ev.op = "serial"
    /\ ev.doc <= Len(ev.plans)
    /\ ev.k = Plan(ev.doc).n
    /\ Await(ev.flight)
    /\ Plan(ev.doc).write
    /\ ev.doc \notin ev.written
    /\ ev' = [ev EXCEPT !.written = @ \cup {ev.doc}]
    /\ UNCHANGED <<store, run, clock, pullClean, pushClean, broken>>

\* the loop goes on to the next document
NextDocument ==
    /\ ev.op = "serial"
    /\ ev.doc <= Len(ev.plans)
    /\ ev.k = Plan(ev.doc).n
    /\ Await(ev.flight)
    /\ Plan(ev.doc).write => ev.doc \in ev.written
    /\ ev' = [ev EXCEPT !.doc = @ + 1, !.k = 0]
    /\ UNCHANGED <<store, run, clock, pullClean, pushClean, broken>>

NextSerial == SendRequest \/ ReceiveResponse \/ WriteNote \/ NextDocument

SpecSerial == InitSerial /\ [][NextSerial]_vars

\* ------------------------------------------------- two runs on one store
\* Two processes, each a pull or push run that is not a dry run, share the
\* ledger file.  Each loads the ledger when it starts, sets the entry of one
\* document in its own copy and writes the copy when it ends; nothing locks
\* the file.  log is the order of the loads and saves.
Procs == {1, 2}

Other(p) == 3 - p

\* the entry process p sets for its document
ProcEntry(p) == CreateEntry(EmptyFrontmatter, <<"n">>, p, p)

\* both processes are about to start
InitTwo ==
    /\ ev \in {[op |-> "two", ledger |-> l, id |-> [p \in Procs |-> IF p = 1 THEN i ELSE j],
                at |-> [p \in Procs |-> "start"], copy |-> [p \in Procs |-> EmptyState],
                log |-> << >>] :
               l \in {EmptyState, SyncedLedger}, i \in {1, 2}, j \in {1, 2}}
    /\ AtRest

\* let state = loadNotesSyncState()
LoadLedger ==
    /\ ev.op = "two"
    /\ \E p \in Procs :
          /\ ev.at[p] = "start"
          /\ ev' = [ev EXCEPT !.copy[p] = loadNotesSyncState(ev.ledger),
                              !.at[p] = "loop",
                              !.log = Append(@, <<p, "load">>)]
    /\ UNCHANGED <<store, run, clock, pullClean, pushClean, broken>>

\* state.notes[id] = { ... } in the loop
SetEntry ==
    /\ ev.op = "two"
    /\ \E p \in Procs :
          /\ ev.at[p] = "loop"
          /\ ev' = [ev EXCEPT !.copy[p].notes = Put(@, ev.id[p], ProcEntry(p)),
                              !.at[p] = "end"]
    /\ UNCHANGED <<store, run, clock, pullClean, pushClean, broken>>

\* saveNotesSyncState(state, dryRun) at the end of the run
SaveLedger ==
    /\ ev.op = "two"
    /\ \E p \in Procs :
          /\ ev.at[p] = "end"
          /\ ev' = [ev EXCEPT !.ledger = saveNotesSyncState(@, ev.copy[p], FALSE, Len(ev.log)),
                              !.at[p] = "done",
                              !.log = Append(@, <<p, "save">>)]
    /\ UNCHANGED <<store, run, clock, pullClean, pushClean, broken>>

NextTwo == LoadLedger \/ SetEntry \/ SaveLedger

SpecTwo == InitTwo /\ [][NextTwo]_vars

\* ----------------------------------------------------- reminders and cron
\* src/commands/reminders.js: the reminders file and the cron jobs file under
\* the commands remind create, cancel, scan --auto and clean.
MaxReminders == 2     \* reminders the file holds
MaxTime == 2          \* the clock and the times of reminders run up to this

\* values of generateId(): four random bytes, nothing keeps them apart
ReminderIds == {1, 2}

NoTask == "none"

\* tasks of the remote database: the start of the due date is a day, or a day
\* with a time of day
Tasks == {[id |-> "t1", due |-> "day"], [id |-> "t2", due |-> "daytime"]}

\* results of the query of scan: the tasks due soon, in the order of the response
TaskLists == {<< >>} \cup {<<t>> : t \in Tasks}
             \cup {l \in {<<t, u>> : t \in Tasks, u \in Tasks} : l[1] # l[2]}

CronName(id) == <<"brain-reminder", id>>

\* a job of another program in the cron jobs file
OtherJob == [name |-> <<"other">>, nextRunAtMs |-> 0]

\* cronData.jobs.filter(j => j.name !== cronId)
WithoutJob(jobs, name) == SelectSeq(jobs, LAMBDA j : j.name # name)

\* addCronEntry: the jobs file after the call
addCronEntry(jobs, reminder) ==
    Append(WithoutJob(jobs, CronName(reminder.id)),
           [name |-> CronName(reminder.id), nextRunAtMs |-> reminder.remindAt])

\* removeCronEntry: the jobs file after the call
removeCronEntry(jobs, reminderId) == WithoutJob(jobs, CronName(reminderId))

\* saveReminders: the reminders file after the call
saveReminders(data, now) == [reminders |-> data, lastUpdated |-> now]

NewReminder(id, taskId, remindAt) ==
    [id |-> id, taskId |-> taskId, remindAt |-> remindAt, status |-> "active"]

\* new Date(dueDate + 'T09:00:00') is a date when the due date is a day, and
\* no date when it holds a time of day: toISOString() then throws
DueAtNine(task) == task.due = "day"

\* the loop of scan --auto over the tasks without reminder: the reminders in
\* memory, the jobs file and whether the loop threw, after the tasks from i on
RECURSIVE ScanLoop(_, _, _, _, _, _)
ScanLoop(needs, ids, i, reminders, jobs, now) ==
    IF i > Len(needs) THEN [reminders |-> reminders, jobs |-> jobs, thrown |-> FALSE]
    ELSE IF ~DueAtNine(needs[i]) THEN [reminders |-> reminders, jobs |-> jobs, thrown |-> TRUE]
    ELSE LET r == NewReminder(ids[i], needs[i].id, Min(now + 1, MaxTime))
         IN  ScanLoop(needs, ids, i + 1, Append(reminders, r), addCronEntry(jobs, r), now)

Active(reminders) == SelectSeq(reminders, LAMBDA r : r.status = "active")

\* clean: the jobs file after the forEach that marks the expired reminders
RECURSIVE CleanJobs(_, _, _, _)
CleanJobs(reminders, i, jobs, now) ==
    IF i > Len(reminders) THEN jobs
    ELSE CleanJobs(reminders, i + 1,
                   IF reminders[i].status = "active" /\ reminders[i].remindAt < now
                   THEN removeCronEntry(jobs, reminders[i].id) ELSE jobs,
                   now)

\* the state of the two files in ev: file is the reminders file, jobs the
\* jobs of the cron file, now the clock
RemindStep(command, file, jobs, now, done) ==
    [op |-> "remind", cmd |-> command, file |-> file, jobs |-> jobs, now |-> now, done |-> done,
     pre |-> [file |-> ev.file, jobs |-> ev.jobs]]

\* no reminders file; the cron file is absent or holds another program's job
InitRemind ==
    /\ ev \in {[op |-> "remind", cmd |-> "none", file |-> saveReminders(<< >>, 0), jobs |-> j,
                now |-> 0, done |-> FALSE,
                pre |-> [file |-> saveReminders(<< >>, 0), jobs |-> j]] :
               j \in {<< >>, <<OtherJob>>}}
    /\ AtRest

\* remind create [when] with --message or --task: nothing is written unless
\* the time was resolved
RemindCreate ==
    /\ ev.op = "remind"
    /\ \E id \in ReminderIds, taskId \in {NoTask, "t1"}, remindAt \in 1 .. MaxTime,
          resolved \in BOOLEAN :
          IF resolved
          THEN /\ Len(ev.file.reminders) < MaxReminders
               /\ LET r == NewReminder(id, taskId, remindAt)
                  IN  ev' = RemindStep("create",
                                       saveReminders(Append(ev.file.reminders, r), ev.now),
                                       addCronEntry(ev.jobs, r), ev.now, TRUE)
          ELSE ev' = RemindStep("create", ev.file, ev.jobs, ev.now, FALSE)
    /\ UNCHANGED <<store, run, clock, pullClean, pushClean, broken>>

\* remind cancel <id>
RemindCancel ==
    /\ ev.op = "remind"
    /\ \E id \in ReminderIds :
          LET rs    == ev.file.reminders
              found == {i \in 1 .. Len(rs) : rs[i].id = id /\ rs[i].status = "active"}
          IN  IF found = {}
              THEN ev' = RemindStep("cancel", ev.file, ev.jobs, ev.now, FALSE)
              ELSE LET i == CHOOSE i \in found : \A j \in found : i <= j
                   IN  ev' = RemindStep("cancel",
                                        saveReminders([rs EXCEPT ![i].status = "cancelled"],
                                                      ev.now),
                                        removeCronEntry(ev.jobs, id), ev.now, TRUE)
    /\ UNCHANGED <<store, run, clock, pullClean, pushClean, broken>>

\* remind scan --auto
RemindScanAuto ==
    /\ ev.op = "remind"
    /\ \E results \in TaskLists :
          LET rs     == ev.file.reminders
              active == {rs[i].taskId : i \in {i \in 1 .. Len(rs) : rs[i].status = "active"}}
              needs  == SelectSeq(results, LAMBDA p : p.id \notin active)
          IN  /\ Len(rs) + Len(needs) <= MaxReminders
              /\ \E ids \in [1 .. Len(needs) -> ReminderIds] :
                    LET out == ScanLoop(needs, ids, 1, rs, ev.jobs, ev.now)
                    IN  IF Len(needs) = 0
                        THEN ev' = RemindStep("scan", ev.file, ev.jobs, ev.now, FALSE)
                        ELSE ev' = RemindStep("scan",
                                              IF out.thrown THEN ev.file
                                              ELSE saveReminders(out.reminders, ev.now),
                                              out.jobs, ev.now, ~out.thrown)
    /\ UNCHANGED <<store, run, clock, pullClean, pushClean, broken>>

\* remind clean, run when the clock shows t
RemindClean ==
    /\ ev.op = "remind"
    /\ \E t \in ev.now .. MaxTime :
          ev' = RemindStep("clean",
                           saveReminders(SelectSeq(ev.file.reminders,
                                                   LAMBDA r : r.status = "active"
                                                              /\ ~(r.remindAt < t)), t),
                           CleanJobs(ev.file.reminders, 1, ev.jobs, t), t, TRUE)
    /\ UNCHANGED <<store, run, clock, pullClean, pushClean, broken>>

NextRemind == RemindCreate \/ RemindCancel \/ RemindScanAuto \/ RemindClean

SpecRemind == InitRemind /\ [][NextRemind]_vars

\* ----------------------------------------------------------------- claims
RunSteps == {"StartPull", "PullDoc", "PullFinish", "StartPush", "PushFile", "PushFinish"}

\* what push read from the file it has just visited
EvParsed == parseNoteMd(ev.pre.files[ev.name])

EvFm == EvParsed.frontmatter

EvTracked == EvFm.id # NoId /\ EvFm.id \in DOMAIN ev.pre.notes

EvEntry == ev.pre.notes[EvFm.id]

StoreUntouched ==
    /\ remote = ev.pre.remote
    /\ files = ev.pre.files
    /\ ledgerFile = ev.pre.ledgerFile
    /\ report = ev.pre.report

\* C1: a file with a ledger entry whose body fingerprint differs from L while
\* L differs from R is classified Conflict: no request is issued for it, the
\* file, the remote and the ledger (file and in-memory entry) stay as they
\* were, and exactly one conflict is recorded for it.
C1_ConflictSkipped ==
    (ev.op = "PushFile" /\ EvTracked
       /\ noteContentHash(EvParsed.body) # EvEntry.localHash
       /\ EvEntry.localHash # EvEntry.notionHash)
    => /\ ev.class = "Conflict"
       /\ ev.issued = NoReqs
       /\ StoreUntouched
       /\ state.notes = ev.pre.notes
       /\ Cardinality({i \in 1 .. Len(conflicts) : conflicts[i].file = ev.name}) = 1

C1_Witness == ev.op = "PushFile" /\ ev.class = "Conflict" /\ ~ev.dry

\* C2: a non-dry OnlyLocalChanged push that succeeds has deleted every old
\* block, left the remote content equal to the encoded body, patched the
\* header's properties, and then set L = R = C with a new edit marker; one
\* that fails at any request leaves the ledger file and the local file as
\* they were.  An entry is moved to L = R = C only with the content replaced.
C2_SafePush ==
    (ev.op = "PushFile" /\ ev.class = "OnlyLocalChanged" /\ ~ev.dry)
    => LET id  == EvFm.id
           old == ev.pre.remote[id]
       IN  /\ EvTracked
           /\ ev.C # EvEntry.localHash /\ EvEntry.localHash = EvEntry.notionHash
           /\ files = (IF ev.ok THEN files ELSE ev.pre.files)
           /\ ledgerFile = ev.pre.ledgerFile
           /\ ev.ok =>
                /\ remote[id].blocks = markdownToBlocks(EvParsed.body)
                /\ ev.issued.delete = Len(old.blocks)
                /\ ev.issued.append = Chunks(Len(markdownToBlocks(EvParsed.body)))
                /\ EvFm.title # << >> => (ev.issued.patch = 1 /\ remote[id].title = EvFm.title)
                /\ state.notes[id].localHash = ev.C
                /\ state.notes[id].notionHash = ev.C
                /\ state.notes[id].notionUpdated =
                     LocalStamp(WriteTime(clock, Cardinality(DOMAIN classes) - 1))
                /\ state.notes[id].notionUpdated # EvEntry.notionUpdated
           /\ ~ev.ok => pc = "idle"

C2_Witness ==
    /\ ev.op = "PushFile" /\ ev.class = "OnlyLocalChanged" /\ ~ev.dry /\ ev.ok
    /\ ev.issued.delete > 0 /\ ev.issued.append > 0

\* C3: a file whose header names a remoteId the ledger does not hold is
\* skipped: no request, no change of the remote, of the file or of the ledger.
\* The classes are decided in the order Create, Orphaned, Unchanged, Conflict,
\* OnlyLocalChanged.
C3_OrphanSkipped ==
    ev.op = "PushFile"
    => LET C == noteContentHash(EvParsed.body)
       IN  /\ ev.class =
                (IF EvFm.id = NoId THEN "Create"
                 ELSE IF EvFm.id \notin DOMAIN ev.pre.notes THEN "Orphaned"
                 ELSE IF C = EvEntry.localHash THEN "Unchanged"
                 ELSE IF EvEntry.localHash # EvEntry.notionHash THEN "Conflict"
                 ELSE "OnlyLocalChanged")
           /\ (EvFm.id # NoId /\ EvFm.id \notin DOMAIN ev.pre.notes)
              => /\ ev.issued = NoReqs
                 /\ StoreUntouched
                 /\ state.notes = ev.pre.notes
                 /\ conflicts = << >> \/ conflicts[Len(conflicts)].file # ev.name

C3_Witness ==
    /\ ev.op = "PushFile" /\ ev.class = "Orphaned" /\ ~ev.dry
    /\ ev.C # EvFm.contentHash

\* C4 (as claimed): a push run that follows a completed non-dry push run with
\* no local edit in between issues no create, delete, append or patch request.
C4_SecondPushIdle ==
    (ev.op = "PushFile" /\ ev.second) => Mutations(ev.issued) = 0

C6_BothEditedKept ==
    /\ (/\ ev.op = "PullDoc" /\ ~ev.dry /\ ev.ok
        /\ ev.id \in DOMAIN ev.pre.notes
        /\ ev.pre.notes[ev.id].slug \in DOMAIN ev.pre.files
        /\ noteContentHash(parseNoteMd(ev.pre.files[ev.pre.notes[ev.id].slug]).body)
             # ev.pre.notes[ev.id].localHash
        /\ ev.pre.remote[ev.id].marker # ev.pre.notes[ev.id].notionUpdated)
       => files[ev.pre.notes[ev.id].slug] = ev.pre.files[ev.pre.notes[ev.id].slug]
    /\ (/\ ev.op = "PushFile" /\ ~ev.dry /\ EvTracked
        /\ EvFm.id \in DOMAIN ev.pre.remote
        /\ noteContentHash(EvParsed.body) # EvEntry.localHash
        /\ ev.pre.remote[EvFm.id].marker # EvEntry.notionUpdated)
       => (remote = ev.pre.remote /\ ev.class = "Conflict")

\* C7: pull classifies a document Unchanged exactly when the ledger holds its
\* id, the file of its slug exists and the stored marker equals the current
\* one; then nothing is fetched, written or changed in the ledger.  Otherwise
\* the blocks are fetched and, when the fetch succeeds in a run that is not a
\* dry run, the file is written from them.
C7_PullUnchanged ==
    ev.op = "PullDoc"
    => LET page == ev.pre.remote[ev.id]
           cond == /\ ev.id \in DOMAIN ev.pre.notes
                   /\ ev.slug \in DOMAIN ev.pre.files
                   /\ ev.pre.notes[ev.id].notionUpdated = page.marker
       IN  /\ (ev.class = "Unchanged") <=> cond
           /\ cond => /\ ev.issued = NoReqs
                      /\ StoreUntouched
                      /\ state.notes = ev.pre.notes
           /\ ~cond => /\ ev.issued.fetch = 1
                       /\ (ev.ok /\ ~ev.dry)
                          => /\ ev.slug \in DOMAIN files
                             /\ files[ev.slug].fm.id = ev.id
                             /\ Trim(files[ev.slug].raw) = blocksToMarkdown(page.blocks)

C7_Witness ==
    /\ ev.op = "PullDoc" /\ ev.class = "Fetch" /\ ev.ok /\ ~ev.dry
    /\ ev.id \in DOMAIN ev.pre.notes
    /\ ev.pre.notes[ev.id].notionUpdated = ev.pre.remote[ev.id].marker
    /\ ev.slug \notin DOMAIN ev.pre.files

\* C8: after pull fetched and wrote a document, its ledger entry has
\* localFingerprint = remoteFingerprint = the fingerprint of the body in the
\* file, which is the header's contentHash and the fingerprint push computes
\* from the file; the stored marker is the document's current marker.
C8_PullClean ==
    (ev.op = "PullDoc" /\ ev.class = "Fetch" /\ ev.ok /\ ~ev.dry)
    => LET e == state.notes[ev.id]
           f == files[ev.slug]
           p == parseNoteMd(f)
       IN  /\ e.localHash = e.notionHash
           /\ e.localHash = noteContentHash(p.body)
           /\ e.localHash = p.frontmatter.contentHash
           /\ e.localHash = noteContentHash(Trim(BlocksMd(remote[ev.id].blocks)))
           /\ e.notionUpdated = remote[ev.id].marker
           /\ e.slug = ev.slug

C8_Witness ==
    /\ ev.op = "PullDoc" /\ ev.class = "Fetch" /\ ev.ok /\ ~ev.dry
    /\ remote[ev.id].blocks # << >>

C10_DryRunWritesNothing ==
    (ev.op \in RunSteps /\ ev.dry)
    => /\ StoreUntouched
       /\ ev.op \in {"PullDoc", "PushFile"} => Mutations(ev.issued) = 0
       /\ ev.op \in {"PullFinish", "PushFinish"} => Mutations(ev.reqs) = 0

C10_Witness ==
    \/ /\ ev.op = "PullFinish" /\ ev.dry /\ ev.counts.pulled > 0
       /\ ev.pre.notes # ledgerFile.notes
    \/ /\ ev.op = "PushFinish" /\ ev.dry /\ Len(ev.conflicts) > 0

\* the class the rule of pull gives to a document on the files and the ledger
\* file as they are in st: what a dry run started there decides, since a dry
\* run changes neither
StartPullClass(st, id) ==
    IF PullUnchanged(st.ledgerFile.notes, id,
                     slugify(PageTitle(remote[id].title)) \in DOMAIN st.files,
                     remote[id].marker)
    THEN "Unchanged" ELSE "Fetch"

StartPushClass(st, name) ==
    LET p == parseNoteMd(st.files[name])
    IN  PushClassify(p.frontmatter, st.ledgerFile.notes, noteContentHash(p.body))

CountOf(f, c) == Cardinality({x \in DOMAIN f : f[x] = c})

\* C11 (as claimed): every step of a pull or push run, dry or not, gives its
\* document or file the class decided from the files and the ledger file as
\* they were when the run started, so a dry run and a real run started from
\* the same state decide alike; the counts reported at the end are the numbers
\* of documents of each class.
C11_DryRunSameDecisions ==
    /\ ev.op = "PullDoc" => ev.class = StartPullClass(ev.start, ev.id)
    /\ ev.op = "PushFile" => ev.class = StartPushClass(ev.start, ev.name)
    /\ ev.op = "PullFinish"
       => /\ ev.counts.pulled = Cardinality({i \in DOMAIN remote :
                                                StartPullClass(ev.start, i) = "Fetch"})
          /\ ev.counts.skipped = Cardinality({i \in DOMAIN remote :
                                                 StartPullClass(ev.start, i) = "Unchanged"})
    /\ ev.op = "PushFinish"
       => LET n(c) == Cardinality({f \in DOMAIN ev.start.files :
                                     StartPushClass(ev.start, f) = c})
          IN  /\ ev.counts.created = n("Create")
              /\ ev.counts.pushed = n("OnlyLocalChanged")
              /\ ev.counts.skipped = n("Orphaned") + n("Unchanged")
              /\ Len(ev.conflicts) = n("Conflict")

ReqTotal(r) == r.query + r.fetch + r.create + r.delete + r.append + r.patch

\* C12: when a request of a step fails, the requests the step issued end with
\* the failing one (the remote shows the effect of exactly the requests before
\* it), the file and the ledger file are not written, no document is left to
\* be processed and no request counted, the run is over (under sync the push
\* does not start) and the exit code is 1.
C12_FailureIsFatal ==
    (ev.op \in {"StartPull", "PullDoc", "PushFile"} /\ ~ev.ok /\ ~ev.killed)
    => /\ pc = "idle" /\ cmd = "none"
       /\ todo = {}
       /\ reqs = NoReqs
       /\ ev.exit = 1
       /\ files = ev.pre.files
       /\ ledgerFile = ev.pre.ledgerFile
       /\ report = ev.pre.report
       /\ ev.op \in {"StartPull", "PullDoc"} => (ReqTotal(ev.issued) = 1 /\ remote = ev.pre.remote)
       /\ (ev.op = "PushFile" /\ ev.class = "Create")
          => (ReqTotal(ev.issued) = 1 /\ remote = ev.pre.remote)
       /\ (ev.op = "PushFile" /\ ev.class = "OnlyLocalChanged" /\ EvFm.id \in DOMAIN remote)
          => LET new == markdownToBlocks(EvParsed.body)
                 old == ev.pre.remote[EvFm.id]
             IN  /\ ReqTotal(ev.issued) <= ReplaceTotal(old.blocks, new, EvFm)
                 /\ remote[EvFm.id] = ReplaceDoc(old, new, EvFm, ReqTotal(ev.issued) - 1, clock)

C12_Witness ==
    /\ ev.op = "PushFile" /\ ~ev.ok /\ ~ev.killed
    /\ ev.issued.delete > 0 /\ ev.issued.append = 0
    /\ ev.pre.files # ev.start.files

\* C13: while a run is in progress the ledger file is as it was when the run
\* started; it is written by the run's last step only, after every document
\* or file has been visited, with the run's in-memory ledger.  A run that
\* fails or is cut short leaves the ledger file as it was before the run; the
\* files rewritten by its earlier steps stay rewritten.
C13_LedgerWrittenAtEnd ==
    /\ pc # "idle" => ledgerFile = start.ledgerFile
    /\ ev.op \in {"PullDoc", "PushFile", "Interrupt"}
       => /\ ledgerFile = ev.start.ledgerFile
          /\ (ev.op = "Interrupt" \/ ~ev.ok) => (pc = "idle" /\ files = ev.pre.files)
    /\ ev.op = "PullFinish" => DOMAIN ev.classes = DOMAIN remote
    /\ ev.op = "PushFinish" => DOMAIN ev.classes = DOMAIN files
    /\ ev.op \in {"PullFinish", "PushFinish"}
       => /\ ev.pre.ledgerFile = ev.start.ledgerFile
          /\ ledgerFile = (IF ev.dry THEN ev.start.ledgerFile
                           ELSE [notes |-> ev.pre.notes, lastSync |-> clock])

C13_Witness ==
    /\ ev.op = "PullDoc" /\ ~ev.ok
    /\ files # ev.start.files
    /\ ledgerFile = ev.start.ledgerFile
    /\ \E name \in DOMAIN files :
          files[name].fm.id # NoId /\ files[name].fm.id \notin DOMAIN ledgerFile.notes

\* the files of a cut-short run's start that had no id: those it had to create
ToCreate(b) == {name \in DOMAIN b.files : parseNoteMd(b.files[name]).frontmatter.id = NoId}

\* C14 (as claimed): when a run was cut short (a failed request, or the
\* process ended) and the same command is then run again, not as a dry run,
\* and completes: after a pull every remote document has a ledger entry with
\* its current marker and a file; after a push every file that had to be
\* created has an id the ledger holds, and no more remote documents were
\* created than there were files to create.
C14_RerunHeals ==
    /\ (ev.op = "PullFinish" /\ ~ev.dry /\ ev.broken.cmd = ev.cmd)
       => \A id \in DOMAIN remote :
             /\ id \in DOMAIN ledgerFile.notes
             /\ ledgerFile.notes[id].notionUpdated = remote[id].marker
             /\ ledgerFile.notes[id].slug \in DOMAIN files
    /\ (ev.op = "PushFinish" /\ ~ev.dry /\ ev.broken.cmd = ev.cmd)
       => /\ \A name \in ToCreate(ev.broken) \cap DOMAIN files :
                /\ files[name].fm.id # NoId
                /\ files[name].fm.id \in DOMAIN ledgerFile.notes
          /\ Cardinality(DOMAIN remote \ ev.broken.ids) <= Cardinality(ToCreate(ev.broken))

\* C15: after a push that is not a dry run and classified at least one file
\* Conflict, the report carries the time of this run and exactly one section
\* for each file the run classified Conflict, with the file's name, the
\* fingerprint of its body, the ledger's two fingerprints and the reference of
\* the remote document; it has no other section, whatever an earlier report
\* held.
C15_ReportOfThisRun ==
    (ev.op = "PushFinish" /\ ~ev.dry /\ CountOf(ev.classes, "Conflict") > 0)
    => /\ report.stamp = clock
       /\ Len(report.sections) = CountOf(ev.classes, "Conflict")
       /\ \A name \in DOMAIN ev.classes :
             ev.classes[name] = "Conflict"
             => LET p == parseNoteMd(files[name])
                    e == ev.pre.notes[p.frontmatter.id]
                IN  \E i \in 1 .. Len(report.sections) :
                       report.sections[i] =
                         [file |-> name, localHash |-> noteContentHash(p.body),
                          lastSyncLocalHash |-> e.localHash, notionHash |-> e.notionHash,
                          page |-> NotionUrl(p.frontmatter.id)]

C15_Witness ==
    /\ ev.op = "PushFinish" /\ ~ev.dry /\ CountOf(ev.classes, "Conflict") > 0
    /\ ev.pre.report # << >>
    /\ report # ev.pre.report
    /\ Cardinality(DOMAIN ev.classes) > 1

\* C16: the fingerprint push computes is that of the file's body alone, and a
\* file with an id the ledger holds whose body fingerprint equals the entry's
\* localHash is Unchanged whatever the entry's notionHash and the header's
\* title, type and status are: no request is issued for it and the remote,
\* the file, the ledger and the conflicts stay as they were.
C16_HeaderEditNotSent ==
    ev.op = "PushFile"
    => LET f == ev.pre.files[ev.name]
       IN  /\ ev.C = noteContentHash(IF f.hdr THEN Trim(f.raw) ELSE f.raw)
           /\ (EvTracked /\ ev.C = EvEntry.localHash)
              => /\ ev.class = "Unchanged"
                 /\ ev.issued = NoReqs
                 /\ StoreUntouched
                 /\ state.notes = ev.pre.notes
                 /\ \A i \in 1 .. Len(conflicts) : conflicts[i].file # ev.name

C16_Witness ==
    /\ ev.op = "PushFile" /\ ev.class = "Unchanged" /\ ~ev.dry
    /\ EvFm.title # EvEntry.title
    /\ EvFm.id \in DOMAIN ev.pre.remote
    /\ EvFm.title # ev.pre.remote[EvFm.id].title
    /\ EvEntry.notionHash # EvEntry.localHash

\* C17: no step of a run removes a remoteId from the ledger file or from the
\* run's in-memory ledger, and after a run the ledger file holds every
\* remoteId it held when the run started, also when the document is no longer
\* on the remote or its file is no longer in the directory.
C17_EntriesKept ==
    /\ ev.op \in RunSteps \cup {"Interrupt"}
       => DOMAIN ev.pre.ledgerFile.notes \subseteq DOMAIN ledgerFile.notes
    /\ (ev.op \in {"PullDoc", "PushFile"} /\ ev.ok)
       => DOMAIN ev.pre.notes \subseteq DOMAIN state.notes
    /\ pc # "idle" => DOMAIN start.ledgerFile.notes \subseteq DOMAIN state.notes
    /\ ev.op \in {"PullFinish", "PushFinish"}
       => DOMAIN ev.start.ledgerFile.notes \subseteq DOMAIN ledgerFile.notes

C17_Witness ==
    /\ ev.op \in {"PullFinish", "PushFinish"} /\ ~ev.dry
    /\ ledgerFile # ev.pre.ledgerFile
    /\ \E id \in DOMAIN ledgerFile.notes :
          /\ id \notin DOMAIN remote
          /\ ledgerFile.notes[id].slug \notin DOMAIN files

\* C18 (as claimed): no two entries of the ledger file carry the same slug,
\* and pull never writes a document over the file of another document.
C18_SlugUnique ==
    /\ \A i, j \in DOMAIN ledgerFile.notes :
          i # j => ledgerFile.notes[i].slug # ledgerFile.notes[j].slug
    /\ (/\ ev.op = "PullDoc" /\ ev.class = "Fetch" /\ ev.ok /\ ~ev.dry
        /\ ev.slug \in DOMAIN ev.pre.files)
       => ev.pre.files[ev.slug].fm.id \in {ev.id, NoId}

\* C19 (as claimed): no step of a pull or push changes the slug of an entry
\* the ledger already holds, and a pull that fetches a document the ledger
\* holds writes it to the file of the slug recorded there.
C19_SlugStable ==
    /\ (ev.op \in {"PullDoc", "PushFile"} /\ ev.ok)
       => \A id \in DOMAIN ev.pre.notes : state.notes[id].slug = ev.pre.notes[id].slug
    /\ (/\ ev.op = "PullDoc" /\ ev.class = "Fetch" /\ ev.ok
        /\ ev.id \in DOMAIN ev.pre.notes)
       => ev.slug = ev.pre.notes[ev.id].slug

\* characters a slug may be made of
SlugAlphabet == AlnumChars \cup {"-"}

\* C20 (as claimed): the slug of a page's title has at most 60 characters,
\* all of them lower-case letters, digits or '-', it neither begins nor ends
\* with '-', and it is not empty.
C20_SlugShape ==
    ev.op = "slugify"
    => /\ Len(ev.slug) <= SlugMax
       /\ \A i \in 1 .. Len(ev.slug) : ev.slug[i] \in SlugAlphabet
       /\ ev.slug # << >>
       /\ ev.slug[1] # "-"
       /\ ev.slug[Len(ev.slug)] # "-"

RECURSIVE FirstPages(_, _)
\* the items of the first n pages of a chain, in page order
FirstPages(chain, n) ==
    IF n = 0 THEN << >> ELSE FirstPages(chain, n - 1) \o PageItems(n, chain[n])

\* C21: both pagination loops follow the cursor of each response, take every
\* item of every page exactly once and in page order, and stop exactly when
\* a response carries no continuation cursor: after n requests the loop
\* holds the items of the first n pages, request i + 1 carried the cursor
\* of response i, and the loop has ended iff response n was the last page.
C21_Pagination ==
    ev.op = "paging" =>
        LET n == Len(ev.sent)
        IN  /\ n <= Len(ev.chain)
            /\ ev.items = FirstPages(ev.chain, n)
            /\ \A i, j \in 1 .. Len(ev.items) : i # j => ev.items[i] # ev.items[j]
            /\ \A i \in 1 .. n : ev.sent[i] = IF i = 1 THEN NoCursor ELSE i
            /\ ev.done <=> (n = Len(ev.chain))

C21_Witness ==
    /\ ev.op = "paging"
    /\ ev.loop = "query"
    /\ ev.done
    /\ Len(ev.sent) = 3
    /\ \A p \in 1 .. 3 : ev.chain[p] > 0

RECURSIVE Flatten(_)
\* the blocks of a sequence of requests, in request order
Flatten(requests) ==
    IF requests = << >> THEN << >> ELSE Head(requests) \o Flatten(Tail(requests))

\* C22: every create and append request carries at most CHUNK_SIZE (100)
\* blocks, and the blocks sent for one document, concatenated in request
\* order, are the document's block list: a prefix of it while requests are
\* still to be sent, the whole list at the end, with the number of requests
\* the push steps count (Chunks, CreateTotal); every request but the last is
\* full, and only the create request of an empty document carries no block.
C22_Batching ==
    ev.op = "batching" =>
        LET all == Flatten(ev.sent)
        IN  /\ \A r \in 1 .. Len(ev.sent) : Len(ev.sent[r]) <= 100
            /\ all = SubSeq(ev.blocks, 1, Len(all))
            /\ ev.stage = "done" =>
                   /\ all = ev.blocks
                   /\ Len(ev.sent) = IF ev.kind = "create" THEN CreateTotal(ev.blocks)
                                     ELSE Chunks(Len(ev.blocks))
            /\ \A r \in 1 .. Len(ev.sent) - 1 : Len(ev.sent[r]) = 100
            /\ \A r \in 1 .. Len(ev.sent) :
                   ev.sent[r] = << >> => r = 1 /\ ev.kind = "create"

C22_Witness ==
    /\ ev.op = "batching"
    /\ ev.kind = "create"
    /\ ev.stage = "done"
    /\ Len(ev.blocks) = 101
    /\ Len(ev.sent) = 2

\* C23: "notes sync" runs pull, then push, with the same --dry-run flag.
\* While the pull of a sync runs nothing of push has happened (no mutating
\* request, no report, no ledger write); the push of a sync begins only at
\* the end of the pull, after every document of the query was handled, from
\* the ledger the pull saved and with the pull's flag; and when a step of
\* the pull fails the process ends with exit code 1 and no push step runs.
C23_SyncPullThenPush ==
    /\ ev.op = "StartPull" /\ ev.cmd = "sync" /\ ev.ok =>
           pc = "pull" /\ cmd = "sync" /\ dryRun = ev.dry
    /\ cmd = "sync" /\ pc = "pull" =>
           /\ ev.op \in {"StartPull", "PullDoc"}
           /\ Mutations(reqs) = 0
           /\ remote = ev.pre.remote
           /\ report = ev.pre.report
           /\ ledgerFile = start.ledgerFile
    /\ cmd = "sync" /\ pc = "push" => ev.op \in {"PullFinish", "PushFile"}
    /\ ev.op = "PullFinish" /\ ev.cmd = "sync" =>
           /\ DOMAIN ev.classes = DOMAIN remote
           /\ pc = "push" /\ cmd = "sync" /\ dryRun = ev.dry
           /\ ev.exit = -1
           /\ state = loadNotesSyncState(ledgerFile)
           /\ todo = DOMAIN files
           /\ reqs = NoReqs /\ classes = << >>
    /\ ev.op = "PushFinish" /\ ev.cmd = "sync" => ev.exit = 0
    /\ ev.op \in {"StartPull", "PullDoc"} /\ ev.cmd = "sync" /\ ~ev.ok =>
           /\ pc = "idle"
           /\ ev.exit = 1
           /\ remote = ev.pre.remote /\ report = ev.pre.report
           /\ ledgerFile = ev.pre.ledgerFile

C23_Witness ==
    /\ ev.op = "PushFile"
    /\ cmd = "sync"
    /\ ev.dry
    /\ ev.ok

\* C24: a file without a recognizable header, or whose header has no id,
\* does not abort push: it is parsed with empty metadata for what is missing
\* (without a header: no metadata at all, the whole content as body), it is
\* classified Create, the step can only fail on a request, and after it the
\* run goes on with the files that remain.
C24_MalformedHeaderTolerated ==
    ev.op = "PushFile" /\ (~ev.pre.files[ev.name].hdr \/ ev.pre.files[ev.name].fm.id = NoId) =>
        /\ EvFm.id = NoId
        /\ ~ev.pre.files[ev.name].hdr =>
               /\ EvFm = EmptyFrontmatter
               /\ ev.C = noteContentHash(ev.pre.files[ev.name].raw)
        /\ ev.class = "Create"
        /\ ev.dry => ev.ok /\ ev.issued = NoReqs
        /\ ~ev.ok => ev.issued.create = 1
        /\ ev.ok =>
               /\ pc = "push"
               /\ ev.name \in DOMAIN classes
               /\ todo = DOMAIN ev.start.files \ DOMAIN classes

C24_Witness ==
    /\ ev.op = "PushFile"
    /\ ev.ok
    /\ \E n \in DOMAIN classes :
          /\ n # ev.name
          /\ ~ev.start.files[n].hdr
          /\ classes[n] = "Create"

\* C25: when the ledger file exists but cannot be read or parsed, pull and
\* push abort at once with a non-zero exit status, before any request, file
\* write or ledger write, and the unreadable ledger file is never replaced.
C25_CorruptLedgerAborts ==
    /\ ev.op \in {"StartPull", "StartPush"} /\ Unreadable(ev.pre.ledgerFile) =>
           /\ pc = "idle"
           /\ ev.exit = 1
           /\ ReqTotal(ev.issued) = 0
    /\ ev.op \in RunSteps /\ Unreadable(ev.pre.ledgerFile) => ledgerFile = ev.pre.ledgerFile

\* the section of the conflict report on this file, when there is one
Reported(rep, name) ==
    IF rep = << >> THEN {}
    ELSE {rep.sections[i] : i \in {j \in 1 .. Len(rep.sections) : rep.sections[j].file = name}}

\* C26: after a push has reported a file as a Conflict, the operator's edit
\* of the file's content resolves it: the next push (not a dry run) that
\* finds the content changed since the report no longer classifies the file
\* Conflict.
C26_EditResolves ==
    ev.op = "PushFile" /\ ~ev.dry
        /\ (\E sec \in Reported(ev.pre.report, ev.name) : sec.localHash # ev.C) =>
        ev.class # "Conflict"

RECURSIVE PullAscending(_, _, _, _, _)
\* the files and the ledger entries a pull leaves that handles the documents
\* ids of the database rem in ascending order of id, from the files fs and
\* the ledger entries notes
PullAscending(rem, fs, notes, ids, now) ==
    IF ids = {} THEN [files |-> fs, notes |-> notes]
    ELSE LET id     == CHOOSE i \in ids : \A j \in ids : i <= j
             page   == rem[id]
             slug   == slugify(PageTitle(page.title))
             mdBody == blocksToMarkdown(page.blocks)
             old    == IF id \in DOMAIN notes THEN notes[id].notionUpdated
                       ELSE RemoteStamp(-1)
         IN  IF PullUnchanged(notes, id, slug \in DOMAIN fs, page.marker)
             THEN PullAscending(rem, fs, notes, ids \ {id}, now)
             ELSE PullAscending(rem,
                                Put(fs, slug, writeNoteMd(PullFrontmatter(id, page, mdBody, now),
                                                          mdBody)),
                                Put(notes, id, PullEntry(slug, page, mdBody, old)),
                                ids \ {id}, now)

\* C27: pull is independent of the order in which it handles the documents:
\* whatever order a completed pull took, it leaves the files and the ledger
\* entries that the pull in ascending order of id leaves from the same
\* store.
C27_PullOrderIndependent ==
    ev.op = "PullFinish" /\ ~ev.dry =>
        LET asc == PullAscending(remote, ev.start.files,
                                 loadNotesSyncState(ev.start.ledgerFile).notes,
                                 DOMAIN remote, clock)
        IN  /\ files = asc.files
            /\ ledgerFile.notes = asc.notes

\* the marks of a span from the outermost to the innermost: link, strike-
\* through, inline code, italic, bold
Opening(t) ==
    (IF t.href # << >> THEN <<"[">> ELSE << >>)
    \o (IF "strikethrough" \in t.annotations THEN <<"~", "~">> ELSE << >>)
    \o (IF "code" \in t.annotations THEN <<Backquote>> ELSE << >>)
    \o (IF "italic" \in t.annotations THEN <<"*">> ELSE << >>)
    \o (IF "bold" \in t.annotations THEN <<"*", "*">> ELSE << >>)

\* and from the innermost to the outermost
Closing(t) ==
    (IF "bold" \in t.annotations THEN <<"*", "*">> ELSE << >>)
    \o (IF "italic" \in t.annotations THEN <<"*">> ELSE << >>)
    \o (IF "code" \in t.annotations THEN <<Backquote>> ELSE << >>)
    \o (IF "strikethrough" \in t.annotations THEN <<"~", "~">> ELSE << >>)
    \o (IF t.href # << >> THEN <<"]", "(">> \o t.href \o <<")">> ELSE << >>)

RECURSIVE Nested(_)
Nested(richText) ==
    IF richText = << >> THEN << >>
    ELSE LET t == Head(richText)
         IN  Opening(t) \o t.plain_text \o Closing(t) \o Nested(Tail(richText))

\* C28: decode nests the inline annotations of a span in a fixed order,
\* bold innermost, then italic, inline code, strikethrough, and the link
\* outermost, for every subset of the annotations; the annotations of a span
\* are a set, so no order of theirs in the input can matter.
C28_AnnotationNesting ==
    ev.op = "richTextToMd" => ev.md = Nested(ev.richText)

C28_Witness ==
    /\ ev.op = "richTextToMd"
    /\ \E i \in 1 .. Len(ev.richText) :
          /\ ev.richText[i].annotations = Annotations
          /\ ev.richText[i].href # << >>
    /\ \E i \in 1 .. Len(ev.richText) :
          ev.richText[i].annotations = {"code", "strikethrough"}

\* the block variants blocksToMarkdown has a case for
KnownTypes ==
    {"paragraph", "heading_1", "heading_2", "heading_3", "bulleted_list_item",
     "numbered_list_item", "to_do", "toggle", "code", "quote", "divider", "callout"}

\* the blocks of a known variant, in order
Supported(blocks) == SelectSeq(blocks, LAMBDA b : b.type \in KnownTypes)

\* the blocks with the children of every toggle taken away
Childless(blocks) ==
    [i \in 1 .. Len(blocks) |->
        IF blocks[i].type = "toggle" THEN [blocks[i] EXCEPT !.children = << >>]
        ELSE blocks[i]]

\* C29: decode never fails on a block of an unknown variant: the block gives
\* no text and the others are decoded as if it were absent; a toggle gives
\* its summary and nothing of its children.
C29_UnknownBlocksSkipped ==
    ev.op = "decoded" =>
        /\ ev.md = blocksToMarkdown(Supported(ev.blocks))
        /\ ev.md = blocksToMarkdown(Childless(ev.blocks))
        /\ \A i \in 1 .. Len(ev.blocks) :
               ev.blocks[i].type = "toggle" =>
                   BlockMd(ev.blocks[i])
                       = DetailsOpen \o richTextToMd(ev.blocks[i].rich_text) \o DetailsClose

C29_Witness ==
    /\ ev.op = "decoded"
    /\ Len(ev.blocks) = 2
    /\ ev.blocks[1].type = "embed"
    /\ ev.blocks[2].type = "toggle"
    /\ ev.blocks[2].children # << >>
    /\ ev.md = Trim(DetailsOpen \o <<"x">> \o DetailsClose)

\* the variants the round trip is stated for
LosslessTypes ==
    {"paragraph", "heading_1", "heading_2", "heading_3", "bulleted_list_item",
     "numbered_list_item", "code", "quote", "divider", "to_do"}

RECURSIVE PlainText(_)
\* the text content of a rich text
PlainText(richText) ==
    IF richText = << >> THEN << >>
    ELSE Head(richText).plain_text \o PlainText(Tail(richText))

\* the sequence of block types and text contents of a block list
Shape(blocks) ==
    [i \in 1 .. Len(blocks) |->
        <<blocks[i].type,
          IF "rich_text" \in DOMAIN blocks[i] THEN PlainText(blocks[i].rich_text) ELSE << >>>>]

\* C30: for a block list made only of paragraph, heading, bulleted and
\* numbered list item, code, quote, divider and todo blocks, encoding the
\* decoded text gives back the same sequence of block types and texts.
C30_RoundTrip ==
    ev.op = "encoded" /\ (\A i \in 1 .. Len(ev.blocks) : ev.blocks[i].type \in LosslessTypes) =>
        Shape(ev.back) = Shape(ev.blocks)

\* C31: as long as only the program writes the ledger, every entry of the
\* ledger file and of a run's in-memory ledger has equal local and remote
\* fingerprints, after runs of any kind (dry or not, completed, failed or cut
\* short), and push never classifies a file Conflict.
C31_FingerprintsEqual ==
    /\ \A id \in DOMAIN ledgerFile.notes :
           ledgerFile.notes[id].localHash = ledgerFile.notes[id].notionHash
    /\ \A id \in DOMAIN state.notes :
           state.notes[id].localHash = state.notes[id].notionHash
    /\ ev.op = "PushFile" => ev.class # "Conflict"
    /\ ev.op = "PushFinish" => ev.conflicts = << >>

C31_Witness ==
    /\ ev.op = "PushFinish"
    /\ ~ev.dry
    /\ ev.counts.created >= 1
    /\ ev.counts.pushed >= 1
    /\ Cardinality(DOMAIN ledgerFile.notes) >= 2

\* a file as the program wrote it: a header whose content fingerprint is
\* the fingerprint of the text below it
Unedited(file) ==
    LET p == parseNoteMd(file)
    IN  file.hdr /\ p.frontmatter.contentHash = noteContentHash(p.body)

\* C32: the push of a sync that finds every local file as the program wrote
\* it (no file edited or added since the last sync) sends no create, delete,
\* append or patch request, whatever happened on the remote side.
C32_SyncOfUneditedFilesIsReadOnly ==
    ev.op = "PushFile" /\ ev.cmd = "sync" /\ ~ev.dry
        /\ (\A n \in DOMAIN ev.start.files : Unedited(ev.start.files[n])) =>
        Mutations(ev.issued) = 0

\* C33: after a push that is not a dry run has created or replaced a
\* document, the edit marker stored in the document's ledger entry is the
\* marker the remote side reports for it.
C33_PushStoresRemoteMarker ==
    ev.op = "PushFile" /\ ev.ok /\ ~ev.dry /\ ev.class \in {"Create", "OnlyLocalChanged"}
        /\ ev.id \in DOMAIN remote =>
        state.notes[ev.id].notionUpdated = remote[ev.id].marker


\* C34: no two local files carry the same remote id in their headers.
C34_OneFilePerRemoteId ==
    \A n \in DOMAIN files : \A m \in DOMAIN files :
        n # m /\ parseNoteMd(files[n]).frontmatter.id # NoId =>
            parseNoteMd(files[n]).frontmatter.id # parseNoteMd(files[m]).frontmatter.id


\* the run was cut short by a failed append request of a replace: every delete
\* request had succeeded, the properties request was never issued
CutInReplace(at) ==
    /\ at.op = "PushFile"
    /\ at.class = "OnlyLocalChanged"
    /\ at.issued.append >= 1
    /\ at.issued.patch = 0

\* C35 (as claimed): when a push fails in the replace of a document, after its blocks were
\* deleted and before the append completed, the ledger file is as it was and
\* its entry of the document has two equal fingerprints; the push run that
\* follows, not a dry run, classifies the file OnlyLocalChanged again, and once
\* its step for the file succeeded, and still when the run ends, the remote
\* blocks of the document are the encoding of the file's body.
C35_InterruptedReplaceHeals ==
    /\ (ev.op = "PushFile" /\ ~ev.ok /\ CutInReplace(CutAt(ev)))
       => /\ ledgerFile = ev.pre.ledgerFile
          /\ ev.id \in DOMAIN loadNotesSyncState(ledgerFile).notes
          /\ loadNotesSyncState(ledgerFile).notes[ev.id].localHash
                = loadNotesSyncState(ledgerFile).notes[ev.id].notionHash
    /\ (ev.op = "PushFile" /\ CutInReplace(ev.broken.at) /\ ev.name = ev.broken.at.name)
       => /\ ev.class = "OnlyLocalChanged"
          /\ ev.ok => remote[ev.id].blocks
                         = markdownToBlocks(parseNoteMd(files[ev.name]).body)
    /\ (ev.op = "PushFinish" /\ CutInReplace(ev.broken.at))
       => /\ ev.classes[ev.broken.at.name] = "OnlyLocalChanged"
          /\ remote[ev.broken.at.id].blocks
                = markdownToBlocks(parseNoteMd(files[ev.broken.at.name]).body)


\* every request of document d was answered and its file, if the step writes
\* one, is written
Completed(d) ==
    /\ \A i \in 1 .. Plan(d).n : <<d, i>> \in ev.done
    /\ Plan(d).write => d \in ev.written

\* C36: in a pull or push run at most one request is outstanding; no request
\* of a document was sent and no file of it written before every request and
\* the file write of the documents before it completed; the file of a
\* document is written after all its requests were answered.
C36_OneAtATime ==
    ev.op = "serial" =>
        /\ Cardinality(ev.flight) <= 1
        /\ \A r \in ev.flight \cup ev.done : \A d \in 0 .. r[1] - 1 : Completed(d)
        /\ \A w \in ev.written :
              /\ \A d \in 0 .. w - 1 : Completed(d)
              /\ \A i \in 1 .. Plan(w).n : <<w, i>> \in ev.done

\* C36 witness: a request of the second document is outstanding after the
\* first document's requests were answered and its file written.
C36_Witness ==
    /\ ev.op = "serial"
    /\ \E r \in ev.flight : r[1] = 2
    /\ Plan(1).n > 0
    /\ 1 \in ev.written


\* the position of the load or save of process p in the log
LogAt(p, what) == CHOOSE i \in 1 .. Len(ev.log) : ev.log[i] = <<p, what>>

\* the ledger file holds the entry process p set
Kept(p) ==
    /\ ev.id[p] \in DOMAIN ev.ledger.notes
    /\ ev.ledger.notes[ev.id[p]] = ProcEntry(p)

\* C37: when two runs on one store have both ended, the ledger file is the
\* copy of the one that saved last: the entry of the other is in the file
\* exactly when the last one loaded the ledger after the other had saved it
\* and set the entry of another document.  An entry is lost whenever the two
\* runs overlap.
C37_LastWriterWins ==
    (ev.op = "two" /\ \A p \in Procs : ev.at[p] = "done") =>
        \A p \in Procs :
            IF LogAt(p, "save") > LogAt(Other(p), "save")
            THEN Kept(p)
            ELSE Kept(p) <=> /\ LogAt(Other(p), "load") > LogAt(p, "save")
                             /\ ev.id[Other(p)] # ev.id[p]

\* C37 witness: both runs ended; they set the entries of different
\* documents, the second loaded before the first saved and saved after it,
\* and the entry of the first is not in the ledger file.
C37_Witness ==
    /\ ev.op = "two"
    /\ \A p \in Procs : ev.at[p] = "done"
    /\ ev.id[1] # ev.id[2]
    /\ LogAt(2, "load") < LogAt(1, "save")
    /\ LogAt(1, "save") < LogAt(2, "save")
    /\ ~Kept(1)


\* C38: a push that classified no file Conflict, and every dry-run push,
\* leaves the conflict report as it was: a report an earlier run wrote is
\* still there when none of its conflicts is left.
C38_ReportKept ==
    (ev.op = "PushFinish" /\ (ev.dry \/ CountOf(ev.classes, "Conflict") = 0)) =>
        report = ev.pre.report

\* C38 witness: a push that is not a dry run visited a file, classified none
\* Conflict, and ended with the earlier report on disk.
C38_Witness ==
    /\ ev.op = "PushFinish"
    /\ ~ev.dry
    /\ DOMAIN ev.classes # {}
    /\ CountOf(ev.classes, "Conflict") = 0
    /\ ev.pre.report # << >>
    /\ report = ev.pre.report


\* the names of the cron jobs the program wrote
ReminderJobs(jobs) == SelectSeq(jobs, LAMBDA j : j.name # OtherJob.name)

\* C39 (as claimed): the cron jobs file holds a job named brain-reminder-<id>
\* exactly for the stored reminders whose status is active, one job for each
\* of them; a cancel of an id that no active reminder has changes neither
\* file.
C39_CronMatchesReminders ==
    ev.op = "remind" =>
        /\ Len(ReminderJobs(ev.jobs)) = Len(Active(ev.file.reminders))
        /\ \A i \in 1 .. Len(ev.file.reminders) :
              ev.file.reminders[i].status = "active" =>
                 \E k \in 1 .. Len(ev.jobs) : ev.jobs[k].name = CronName(ev.file.reminders[i].id)
        /\ \A k \in 1 .. Len(ReminderJobs(ev.jobs)) :
              \E r \in {Active(ev.file.reminders)[i] : i \in 1 .. Len(Active(ev.file.reminders))} :
                 ReminderJobs(ev.jobs)[k].name = CronName(r.id)
        /\ (ev.cmd = "cancel" /\ ~ev.done) => ev.file = ev.pre.file /\ ev.jobs = ev.pre.jobs

====
